---- MODULE Spec2Model ----
(***************************************************************************)
(* A model of the Scout AI query and evaluation engine.                    *)
(*                                                                         *)
(* src/src/nlp/query_processor.py: AFLQueryProcessor.process_query (free   *)
(* text -> filters + confidence) and apply_filters_to_dataframe (filters + *)
(* DataFrame -> filtered, sorted and limited DataFrame).                   *)
(* src/app/models/enhanced_ml_models.py: PlayerEvaluationModel             *)
(* .prepare_features (samples -> derived features) and                     *)
(* .predict_player_potential (features + scorer -> projections).           *)
(* src/src/analysis/ml_models.py: AFLPlayerAnalyzer.evaluate_team_fit and  *)
(* .cluster_players_by_style.                                              *)
(*                                                                         *)
(* Numbers.  Quantiles are kept as integers scaled by 4 (the interpolation *)
(* fractions of the 0.25 and 0.75 quantiles are multiples of 1/4, so for   *)
(* integer stats the scaled value is exact, as is the float pandas         *)
(* computes).  The confidence weights are kept in hundredths.              *)
(* Optional values (None or a value) are <<>> or <<value>>.                *)
(***************************************************************************)
EXTENDS Integers, Sequences, FiniteSets, TLC

VARIABLES
    pc,        \* "ready" | "filtered" | "refiltered" | "asked" | "answered"
    df,        \* the caller's DataFrame, argument of apply_filters_to_dataframe
    filters,   \* the filters dict
    result,    \* the returned frame of the first call (and its error flag)
    result2,   \* the returned frame of the call on the first call's result
    query,     \* the query string given to process_query
    answer,    \* the dict process_query returns
    performance_data,  \* the samples: prepare_features' argument, or the
                       \* player_performance rows of the database
    features,  \* what prepare_features returns (and whether it raised)
    model,     \* the PlayerEvaluationModel instance: models, scalers,
               \* feature_columns, is_trained
    model_dir, \* the "models" directory on disk: None, or its pickles
    projection,\* the dict predict_player_potential returns
    scored,    \* the feature vectors handed to the scorer, in call order
    args       \* the arguments of the evaluation call

queryVars == <<df, filters, result, result2, query, answer>>
evalVars == <<performance_data, features, model, model_dir, projection, scored, args>>
vars == <<pc, queryVars, evalVars>>

(***************************************************************************)
(* Bounds of the model.                                                    *)
(***************************************************************************)
MaxRows == 2
MaxWords == 2
MaxSamples == 11
MaxMixed == 3
MaxAge == 34
MaxYears == 3
MaxPlayers == 2
MaxPoints == 3

None == <<>>
Some(v) == <<v>>
IsNone(o) == o = <<>>
Val(o) == o[1]

Range(s) == {s[i] : i \in DOMAIN s}
Min(a, b) == IF a <= b THEN a ELSE b
Max(a, b) == IF a >= b THEN a ELSE b

(***************************************************************************)
(* Strings: str.lower() and the substring test `k in s`.                   *)
(***************************************************************************)
Upper == <<"A","B","C","D","E","F","G","H","I","J","K","L","M",
           "N","O","P","Q","R","S","T","U","V","W","X","Y","Z">>
LowerLetters == <<"a","b","c","d","e","f","g","h","i","j","k","l","m",
                  "n","o","p","q","r","s","t","u","v","w","x","y","z">>

LowerChar(c) ==
    IF \E i \in 1..26 : Upper[i] = c
    THEN LowerLetters[CHOOSE i \in 1..26 : Upper[i] = c]
    ELSE c

RECURSIVE Lower(_)
Lower(s) ==
    IF Len(s) = 0 THEN ""
    ELSE LowerChar(SubSeq(s, 1, 1)) \o Lower(SubSeq(s, 2, Len(s)))

\* k occurs in s at position i (from 1)
StartsAt(s, i, k) ==
    i >= 1 /\ i + Len(k) - 1 <= Len(s) /\ SubSeq(s, i, i + Len(k) - 1) = k

\* k in s
Contains(s, k) == \E i \in 1..(Len(s) - Len(k) + 1) : StartsAt(s, i, k)

(***************************************************************************)
(* A DataFrame: its columns and its rows in order.  A row is a function    *)
(* from "idx" (the index label) and the frame's columns to cell values.    *)
(* Text cells are strings, numeric stat cells integers, and an Age cell is *)
(* <<"int", n>> or <<"str", s>> (a scraped, non-numeric age).              *)
(***************************************************************************)
Frame(cols, rows) == [columns |-> cols, rows |-> rows]

IsNum(cell) == cell[1] = "int"

\* A frame state inside the try block: the rows of filtered_df, and whether
\* an exception has been raised.
St(rows, raised) == [rows |-> rows, raised |-> raised]

(***************************************************************************)
(* Series.quantile(q) for q = q4/4, linear interpolation, scaled by 4:     *)
(* position (n-1)*q in the ascending values, value lo + frac*(hi - lo).    *)
(* NaN (the quantile of an empty series) is None.                          *)
(***************************************************************************)
ColValues(rows, col) == [i \in 1..Len(rows) |-> rows[i][col]]

\* the k-th smallest value of vals, k counted from 0
Kth(vals, k) ==
    CHOOSE v \in Range(vals) :
        /\ Cardinality({i \in DOMAIN vals : vals[i] < v}) <= k
        /\ k < Cardinality({i \in DOMAIN vals : vals[i] <= v})

quantile(vals, q4) ==
    IF Len(vals) = 0 THEN None
    ELSE LET pos4 == (Len(vals) - 1) * q4
             lo   == pos4 \div 4
             hi   == Min(lo + 1, Len(vals) - 1)
             frac == pos4 % 4
         IN  Some(4 * Kth(vals, lo) + frac * (Kth(vals, hi) - Kth(vals, lo)))

\* series >= threshold and series <= threshold, cell by cell (False against NaN)
GE(x, threshold) == ~IsNone(threshold) /\ 4 * x >= Val(threshold)
LE(x, threshold) == ~IsNone(threshold) /\ 4 * x <= Val(threshold)

(***************************************************************************)
(* The steps of apply_filters_to_dataframe, in the order of the code.      *)
(* Each takes the state of filtered_df and gives the state after it.       *)
(***************************************************************************)
\* (mutant) the Position filter without its column test: the lookup of the
\* missing column raises KeyError
PositionStepNoColumnTest(st, cols, f) ==
    IF st.raised \/ f.positions = {} THEN st
    ELSE IF "Position" \notin cols THEN St(st.rows, TRUE)
    ELSE LET wanted == {Lower(p) : p \in f.positions}
             Test(r) == Lower(r["Position"]) \in wanted
         IN  St(SelectSeq(st.rows, Test), FALSE)

\* lines 311-316
PositionStep(st, cols, f) ==
    IF st.raised \/ f.positions = {} \/ "Position" \notin cols THEN st
    ELSE LET wanted == {Lower(p) : p \in f.positions}
             Test(r) == Lower(r["Position"]) \in wanted
         IN  St(SelectSeq(st.rows, Test), FALSE)

\* lines 318-323: the regex t1|t2|..., case-insensitive, searched in the
\* lower-cased Team (the team names are plain words)
TeamStep(st, cols, f) ==
    IF st.raised \/ f.teams = {} \/ "Team" \notin cols THEN st
    ELSE LET Test(r) == \E t \in f.teams : Contains(Lower(r["Team"]), Lower(t))
         IN  St(SelectSeq(st.rows, Test), FALSE)

\* lines 329 and 331: one bound; comparing a non-numeric Age cell with the
\* bound raises TypeError
AgeBound(st, bound, isMin) ==
    IF st.raised \/ IsNone(bound) THEN st
    ELSE IF \E i \in DOMAIN st.rows : ~IsNum(st.rows[i]["Age"])
         THEN St(st.rows, TRUE)
         ELSE LET Test(r) == IF isMin THEN r["Age"][2] >= Val(bound)
                                      ELSE r["Age"][2] <= Val(bound)
              IN  St(SelectSeq(st.rows, Test), FALSE)

\* lines 325-331
AgeStep(st, cols, f) ==
    IF st.raised \/ "Age" \notin cols THEN st
    ELSE AgeBound(AgeBound(st, f.age_range[1], TRUE), f.age_range[2], FALSE)

\* (mutant) strict comparisons against the thresholds
ComparisonStepStrict(st, cols, stat, comparison) ==
    IF st.raised \/ stat \notin cols THEN st
    ELSE LET vals == ColValues(st.rows, stat)
             q25  == quantile(vals, 1)
             q75  == quantile(vals, 3)
             High(r)   == GE(r[stat], q75) /\ ~LE(r[stat], q75)
             Low(r)    == LE(r[stat], q25) /\ ~GE(r[stat], q25)
             Medium(r) == ~IsNone(q25) /\ ~LE(r[stat], q25) /\ ~GE(r[stat], q75)
         IN  CASE comparison = "high"   -> St(SelectSeq(st.rows, High), FALSE)
               [] comparison = "low"    -> St(SelectSeq(st.rows, Low), FALSE)
               [] comparison = "medium" -> St(SelectSeq(st.rows, Medium), FALSE)
               [] OTHER                 -> st

\* (mutant) the medium bucket built by concatenating the rows >= q25 and the
\* rows <= q75 instead of intersecting the two masks
ComparisonStepConcat(st, cols, stat, comparison) ==
    IF st.raised \/ stat \notin cols THEN st
    ELSE LET vals == ColValues(st.rows, stat)
             q25  == quantile(vals, 1)
             q75  == quantile(vals, 3)
             High(r)   == GE(r[stat], q75)
             Low(r)    == LE(r[stat], q25)
             AboveLow(r)  == GE(r[stat], q25)
             BelowHigh(r) == LE(r[stat], q75)
         IN  CASE comparison = "high"   -> St(SelectSeq(st.rows, High), FALSE)
               [] comparison = "low"    -> St(SelectSeq(st.rows, Low), FALSE)
               [] comparison = "medium" ->
                      St(SelectSeq(st.rows, AboveLow) \o SelectSeq(st.rows, BelowHigh), FALSE)
               [] OTHER                 -> st

\* lines 335-347: one (stat, comparison) item, thresholds over filtered_df
ComparisonStep(st, cols, stat, comparison) ==
    IF st.raised \/ stat \notin cols THEN st
    ELSE LET vals == ColValues(st.rows, stat)
             q25  == quantile(vals, 1)
             q75  == quantile(vals, 3)
             High(r)   == GE(r[stat], q75)
             Low(r)    == LE(r[stat], q25)
             Medium(r) == GE(r[stat], q25) /\ LE(r[stat], q75)
         IN  CASE comparison = "high"   -> St(SelectSeq(st.rows, High), FALSE)
               [] comparison = "low"    -> St(SelectSeq(st.rows, Low), FALSE)
               [] comparison = "medium" -> St(SelectSeq(st.rows, Medium), FALSE)
               [] OTHER                 -> st

\* one item with the thresholds taken over the rows `population`
ComparisonOver(st, cols, stat, comparison, population) ==
    IF st.raised \/ stat \notin cols THEN st
    ELSE LET vals == ColValues(population, stat)
             q25  == quantile(vals, 1)
             q75  == quantile(vals, 3)
             High(r)   == GE(r[stat], q75)
             Low(r)    == LE(r[stat], q25)
             Medium(r) == GE(r[stat], q25) /\ LE(r[stat], q75)
         IN  CASE comparison = "high"   -> St(SelectSeq(st.rows, High), FALSE)
               [] comparison = "low"    -> St(SelectSeq(st.rows, Low), FALSE)
               [] comparison = "medium" -> St(SelectSeq(st.rows, Medium), FALSE)
               [] OTHER                 -> st

RECURSIVE ComparisonsOver(_, _, _, _)
ComparisonsOver(st, cols, items, population) ==
    IF Len(items) = 0 THEN st
    ELSE ComparisonsOver(
             ComparisonOver(st, cols, items[1][1], items[1][2], population),
             cols, Tail(items), population)

\* (mutant) every threshold taken once, over the rows the loop starts with
ComparisonsLoopFixedPopulation(st, cols, items) ==
    ComparisonsOver(st, cols, items, st.rows)

\* line 334: the loop over filters['comparisons'].items(), in dict order
RECURSIVE ComparisonsLoop(_, _, _)
ComparisonsLoop(st, cols, items) ==
    IF Len(items) = 0 THEN st
    ELSE ComparisonsLoop(ComparisonStep(st, cols, items[1][1], items[1][2]),
                         cols, Tail(items))

\* sort_values(col, ascending=False): the default sort is not stable, so the
\* order among rows with equal values is any order
sort_values(rows, col) ==
    LET n == Len(rows)
        perms == {p \in [1..n -> 1..n] :
                     /\ \A i, j \in 1..n : i # j => p[i] # p[j]
                     /\ \A i \in 1..(n - 1) : rows[p[i]][col] >= rows[p[i + 1]][col]}
    IN  {[i \in 1..n |-> rows[p[i]]] : p \in perms}

\* lines 349-351
SortStep(st, cols, f) ==
    IF st.raised \/ IsNone(f.sort_by) \/ Val(f.sort_by) = "" \/ Val(f.sort_by) \notin cols
    THEN {st}
    ELSE {St(rows, FALSE) : rows \in sort_values(st.rows, Val(f.sort_by))}

\* DataFrame.head(n): the first n rows, or all but the last -n rows
head(rows, n) ==
    IF n >= 0 THEN SubSeq(rows, 1, Min(n, Len(rows)))
    ELSE SubSeq(rows, 1, Max(Len(rows) + n, 0))

\* (mutant) the limit used as the number of rows to skip: iloc[limit:]
LimitStepSkip(st, f) ==
    IF st.raised \/ IsNone(f.limit) \/ Val(f.limit) = 0 THEN st
    ELSE St(SubSeq(st.rows, Max(Val(f.limit), 0) + 1, Len(st.rows)), FALSE)

\* lines 353-355
LimitStep(st, f) ==
    IF st.raised \/ IsNone(f.limit) \/ Val(f.limit) = 0 THEN st
    ELSE St(head(st.rows, Val(f.limit)), FALSE)

\* lines 304-362: every frame the call can return, with whether the except
\* branch ran (it returns df itself)
apply_filters_to_dataframe(d, f) ==
    LET s0 == St(d.rows, FALSE)
        s1 == PositionStep(s0, d.columns, f)
        s2 == TeamStep(s1, d.columns, f)
        s3 == AgeStep(s2, d.columns, f)
        s4 == ComparisonsLoop(s3, d.columns, f.comparisons)
        s5 == SortStep(s4, d.columns, f)
        s6 == {LimitStep(s, f) : s \in s5}
    IN  {IF s.raised THEN [frame |-> d, raised |-> TRUE]
         ELSE [frame |-> Frame(d.columns, s.rows), raised |-> FALSE] : s \in s6}

\* (mutant) the rows sorted in place in the caller's frame
InputAfterCallInplace(d, f) ==
    IF IsNone(f.sort_by) \/ Val(f.sort_by) \notin d.columns THEN d
    ELSE Frame(d.columns, CHOOSE rows \in sort_values(d.rows, Val(f.sort_by)) : TRUE)

\* What the call leaves in the caller's frame: the steps work on df.copy()
\* and rebind filtered_df, nothing writes to df
InputAfterCall(d, f) == d

(***************************************************************************)
(* The inputs: frames of up to MaxRows players, and the filters.           *)
(***************************************************************************)
AllColumns == {"Position", "Team", "Age", "disposals", "marks"}

ColumnSets ==
    {AllColumns,
     AllColumns \ {"Position", "Age", "disposals"},
     AllColumns \ {"Team", "marks"}}

Player(pos, team, age, d, m) ==
    [Position |-> pos, Team |-> team, Age |-> age, disposals |-> d, marks |-> m]

Players ==
    {Player("Midfielder", "Carlton", <<"int", 21>>, 10, 1),
     Player("Forward", "Richmond", <<"int", 30>>, 20, 2),
     Player("MIDFIELDER", "Carlton Blues", <<"str", "n/a">>, 20, 1)}

MakeRow(i, p, cols) == [c \in cols \cup {"idx"} |-> IF c = "idx" THEN i ELSE p[c]]

MakeFrame(ps, cols) == Frame(cols, [i \in 1..Len(ps) |-> MakeRow(i, ps[i], cols)])

\* spec.md, scenario B: disposals 10, 20, 30, 40, 50
ScenarioB ==
    MakeFrame([i \in 1..5 |->
                  Player("Midfielder", "Carlton", <<"int", 20 + i>>, 10 * i, 6 - i)],
              AllColumns)

Frames ==
    {ScenarioB} \cup
    UNION {{MakeFrame(ps, cols) : ps \in [1..n -> Players], cols \in ColumnSets} :
           n \in 0..MaxRows}

ComparisonLists ==
    {<<>>,
     <<<<"disposals", "high">>>>,
     <<<<"disposals", "low">>>>,
     <<<<"disposals", "medium">>>>,
     <<<<"disposals", "high">>, <<"marks", "low">>>>,
     <<<<"marks", "low">>, <<"disposals", "high">>>>}

FilterSpecs ==
    [positions   : {{}, {"midfielder"}},
     teams       : {{}, {"carlton"}},
     age_range   : {<<None, None>>, <<None, Some(23)>>, <<Some(28), None>>},
     comparisons : ComparisonLists,
     sort_by     : {None, Some("disposals")},
     limit       : {None, Some(0), Some(-1), Some(1)}]

NoAnswer == [confidence |-> 0]

\* the evaluation engine is not part of this run
EvalIdle ==
    /\ performance_data = <<>>
    /\ features = <<>>
    /\ model = <<>>
    /\ model_dir = <<>>
    /\ projection = <<>>
    /\ scored = <<>>
    /\ args = <<>>

InitFilter ==
    /\ pc = "ready"
    /\ df \in Frames
    /\ filters \in FilterSpecs
    /\ result = [frame |-> Frame({}, <<>>), raised |-> FALSE]
    /\ result2 = [frame |-> Frame({}, <<>>), raised |-> FALSE]
    /\ query = ""
    /\ answer = NoAnswer
    /\ EvalIdle

\* the caller applies the filters to its frame
ApplyFilters ==
    /\ pc = "ready"
    /\ \E out \in apply_filters_to_dataframe(df, filters) : result' = out
    /\ df' = InputAfterCall(df, filters)
    /\ pc' = "filtered"
    /\ UNCHANGED <<filters, result2, query, answer, evalVars>>

\* the caller applies the same filters to the frame it got back
ApplyFiltersAgain ==
    /\ pc = "filtered"
    /\ \E out \in apply_filters_to_dataframe(result.frame, filters) : result2' = out
    /\ result' = [result EXCEPT !.frame = InputAfterCall(result.frame, filters)]
    /\ pc' = "refiltered"
    /\ UNCHANGED <<df, filters, query, answer, evalVars>>

NextFilter == ApplyFilters \/ ApplyFiltersAgain

SpecFilter == InitFilter /\ [][NextFilter]_vars

(***************************************************************************)
(* Reference definitions for the claims on apply_filters_to_dataframe: the *)
(* percentiles by an explicit ascending sort, and the buckets.             *)
(***************************************************************************)
RECURSIVE SortAsc(_)
SortAsc(vals) ==
    IF Len(vals) = 0 THEN <<>>
    ELSE LET i == CHOOSE i \in DOMAIN vals : \A j \in DOMAIN vals : vals[i] <= vals[j]
         IN  <<vals[i]>> \o SortAsc(SubSeq(vals, 1, i - 1) \o SubSeq(vals, i + 1, Len(vals)))

\* 4 * P25 (q4 = 1) and 4 * P75 (q4 = 3) of a non-empty sequence of values
Percentile4(vals, q4) ==
    LET a    == SortAsc(vals)
        pos4 == (Len(a) - 1) * q4
        lo   == (pos4 \div 4) + 1
        hi   == IF lo < Len(a) THEN lo + 1 ELSE lo
    IN  4 * a[lo] + (pos4 % 4) * (a[hi] - a[lo])

InBucket(r, S, stat, bucket) ==
    LET vals == ColValues(S, stat)
    IN  CASE bucket = "high"   -> 4 * r[stat] >= Percentile4(vals, 3)
          [] bucket = "low"    -> 4 * r[stat] <= Percentile4(vals, 1)
          [] bucket = "medium" -> /\ 4 * r[stat] >= Percentile4(vals, 1)
                                  /\ 4 * r[stat] <= Percentile4(vals, 3)

\* the rows of S in the bucket of S (all of S when the frame has no such column)
BucketRows(S, cols, item) ==
    IF item[1] \notin cols THEN S
    ELSE LET Test(r) == InBucket(r, S, item[1], item[2])
         IN  SelectSeq(S, Test)

\* the rows retained by the position, team and age steps
Retained(d, f) ==
    AgeStep(TeamStep(PositionStep(St(d.rows, FALSE), d.columns, f), d.columns, f),
            d.columns, f).rows

RowSet(frame) == Range(frame.rows)
SortActive(d, f) == ~IsNone(f.sort_by) /\ Val(f.sort_by) \in d.columns
LimitActive(f) == ~IsNone(f.limit) /\ Val(f.limit) # 0
Called == pc \in {"filtered", "refiltered"}
NoFilters ==
    [positions |-> {}, teams |-> {}, age_range |-> <<None, None>>,
     comparisons |-> <<>>, sort_by |-> None, limit |-> None]

\* C1 (as claimed): applying the same filters to the result of a call gives
\* the same rows in the same order, also when the filters carry a high, low
\* or medium comparison.  Stated on the filters with no sort and no limit,
\* where the comparisons alone decide it.
C1_Idempotent ==
    (pc = "refiltered" /\ IsNone(filters.sort_by) /\ IsNone(filters.limit))
    => result2.frame.rows = result.frame.rows

\* C1 (amended): the second application changes nothing when the filters
\* carry no comparison, the limit is absent or not negative, and the rows of
\* the first result do not tie on the sort column.
C1_IdempotentWithoutComparisons ==
    (/\ pc = "refiltered"
     /\ filters.comparisons = <<>>
     /\ (IsNone(filters.limit) \/ Val(filters.limit) >= 0)
     /\ (SortActive(df, filters) =>
            \A i, j \in DOMAIN result.frame.rows :
                i # j => result.frame.rows[i][Val(filters.sort_by)]
                         # result.frame.rows[j][Val(filters.sort_by)]))
    => result2 = result

C1_Witness ==
    /\ pc = "refiltered"
    /\ filters.comparisons = <<>>
    /\ filters.positions # {}
    /\ SortActive(df, filters)
    /\ filters.limit = Some(1)
    /\ ~result.raised
    /\ Len(result.frame.rows) = 1
    /\ Len(df.rows) > 1
    /\ result.frame.rows[1]["idx"] # 1
    /\ result2 = result

\* C4: every returned row is a row of the input frame, and no row of the
\* input is returned twice.
C4_RowsOfInput ==
    Called =>
        /\ result.frame.columns = df.columns
        /\ \A i \in DOMAIN result.frame.rows : result.frame.rows[i] \in RowSet(df)
        /\ \A i, j \in DOMAIN result.frame.rows :
               i # j => result.frame.rows[i] # result.frame.rows[j]

C4_Witness ==
    /\ pc = "filtered"
    /\ ~result.raised
    /\ filters.comparisons # <<>>
    /\ filters.comparisons[1][2] = "medium"
    /\ SortActive(df, filters)
    /\ Len(result.frame.rows) = 3
    /\ Len(df.rows) = 5
    /\ result.frame.rows[1]["idx"] = 4

\* C5: with a limit in effect (a positive limit), the call returns at most
\* limit rows.
C5_AtMostLimit ==
    (pc = "filtered" /\ ~IsNone(filters.limit) /\ Val(filters.limit) > 0)
    => Len(result.frame.rows) <= Val(filters.limit)

\* C6: a limit of zero or below is no limit: the call returns
\* what it returns with the limit absent.
C6_NonPositiveLimitIsNoLimit ==
    (pc = "filtered" /\ ~IsNone(filters.limit) /\ Val(filters.limit) <= 0)
    => result \in apply_filters_to_dataframe(df, [filters EXCEPT !.limit = None])

\* C7: a single comparison keeps exactly the rows of the retained subset S in
\* the bucket taken over S (>= P75, <= P25, or within [P25, P75]), in the
\* order of S unless sorted; on disposals 10..50 the high threshold is 40 and
\* the rows kept are those with 40 and 50.
C7_BucketOfRetained ==
    /\ (/\ pc = "filtered"
        /\ ~result.raised
        /\ Len(filters.comparisons) = 1
        /\ ~LimitActive(filters))
       => LET S    == Retained(df, filters)
              kept == BucketRows(S, df.columns, filters.comparisons[1])
          IN  /\ RowSet(result.frame) = Range(kept)
              /\ Len(result.frame.rows) = Len(kept)
              /\ ~SortActive(df, filters) => result.frame.rows = kept
    /\ (/\ pc = "filtered"
        /\ df = ScenarioB
        /\ filters = [NoFilters EXCEPT !.comparisons = <<<<"disposals", "high">>>>])
       => /\ quantile(ColValues(df.rows, "disposals"), 3) = Some(4 * 40)
          /\ ColValues(result.frame.rows, "disposals") = <<40, 50>>
          /\ ColValues(result.frame.rows, "idx") = <<4, 5>>

C7_Witness ==
    /\ pc = "filtered"
    /\ df = ScenarioB
    /\ filters = [NoFilters EXCEPT !.comparisons = <<<<"disposals", "high">>>>]
    /\ ColValues(result.frame.rows, "disposals") = <<40, 50>>

\* C8: the comparisons come after the position, team and age steps and each
\* takes its thresholds over the rows retained so far; the sort comes next
\* and the limit last.
C8_StepOrder ==
    (pc = "filtered" /\ ~result.raised /\ Len(filters.comparisons) <= 2)
    => LET S0 == Retained(df, filters)
           S1 == IF Len(filters.comparisons) >= 1
                 THEN BucketRows(S0, df.columns, filters.comparisons[1]) ELSE S0
           S2 == IF Len(filters.comparisons) = 2
                 THEN BucketRows(S1, df.columns, filters.comparisons[2]) ELSE S1
           n  == IF ~LimitActive(filters) THEN Len(S2)
                 ELSE IF Val(filters.limit) > 0 THEN Min(Val(filters.limit), Len(S2))
                 ELSE Max(Len(S2) + Val(filters.limit), 0)
           rows == result.frame.rows
       IN  /\ RowSet(result.frame) \subseteq Range(S2)
           /\ Len(rows) = n
           /\ ~SortActive(df, filters) => rows = SubSeq(S2, 1, n)
           /\ SortActive(df, filters) =>
                  LET col == Val(filters.sort_by)
                  IN  /\ \A i \in 1..(Len(rows) - 1) : rows[i][col] >= rows[i + 1][col]
                      /\ \A r \in Range(S2) \ Range(rows) :
                             \A i \in DOMAIN rows : r[col] <= rows[i][col]

Reverse(s) == [i \in 1..Len(s) |-> s[Len(s) + 1 - i]]

\* two comparisons whose result differs from the one with the thresholds of
\* the original population, and from the one with the comparisons swapped
C8_Witness ==
    /\ pc = "filtered"
    /\ ~result.raised
    /\ Len(filters.comparisons) = 2
    /\ ~LimitActive(filters)
    /\ RowSet(result.frame) #
           Range(ComparisonsOver(St(Retained(df, filters), FALSE), df.columns,
                                 filters.comparisons, df.rows).rows)
    /\ result \notin apply_filters_to_dataframe(
                         df, [filters EXCEPT !.comparisons = Reverse(@)])

C10_MissingColumnSkipped ==
    pc = "filtered" =>
        /\ "Position" \notin df.columns =>
               result \in apply_filters_to_dataframe(df, [filters EXCEPT !.positions = {}])
        /\ "Team" \notin df.columns =>
               result \in apply_filters_to_dataframe(df, [filters EXCEPT !.teams = {}])
        /\ "Age" \notin df.columns =>
               /\ result \in apply_filters_to_dataframe(
                                 df, [filters EXCEPT !.age_range = <<None, None>>])
               /\ ~result.raised
        /\ \A k \in DOMAIN filters.comparisons :
               filters.comparisons[k][1] \notin df.columns =>
                   result \in apply_filters_to_dataframe(
                                  df, [filters EXCEPT !.comparisons =
                                          SubSeq(@, 1, k - 1) \o SubSeq(@, k + 1, Len(@))])
        /\ (~IsNone(filters.sort_by) /\ Val(filters.sort_by) \notin df.columns) =>
               result \in apply_filters_to_dataframe(df, [filters EXCEPT !.sort_by = None])

C10_Witness ==
    /\ pc = "filtered"
    /\ "Position" \notin df.columns
    /\ filters.positions # {}
    /\ filters.teams # {}
    /\ filters.comparisons = <<<<"disposals", "high">>, <<"marks", "low">>>>
    /\ ~result.raised
    /\ Len(df.rows) = 2
    /\ Len(result.frame.rows) = 1

(***************************************************************************)
(* process_query.  The keyword tables of AFLQueryProcessor.__init__, each  *)
(* in the order of its dict.                                               *)
(***************************************************************************)
\* lines 45-50
position_keywords ==
    <<
       <<"defender", <<"defender", "defence", "back", "backman", "fullback", "halfback">>>>,
       <<"midfielder", <<"midfielder", "midfield", "mid", "centre", "wing", "winger">>>>,
       <<"forward", <<"forward", "forwards", "key forward", "small forward", "fullforward">>>>,
       <<"ruck", <<"ruck", "ruckman", "big man">>>>
    >>

\* lines 52-62
stat_keywords ==
    <<
       <<"disposals", <<"disposal", "disposals", "possession", "possessions", "touch", "touches">>>>,
       <<"marks", <<"mark", "marks", "marking", "catch", "catches">>>>,
       <<"tackles", <<"tackle", "tackles", "tackling", "pressure">>>>,
       <<"goals", <<"goal", "goals", "scoring", "kicking goals">>>>,
       <<"contested_possessions", <<"contested", "contested possession", "hard ball", "contest">>>>,
       <<"clearances", <<"clearance", "clearances", "clearing">>>>,
       <<"goal_accuracy", <<"accuracy", "goal accuracy", "kicking accuracy", "accurate">>>>,
       <<"kicks", <<"kick", "kicks", "kicking">>>>,
       <<"handballs", <<"handball", "handballs", "handpass">>>>
    >>

\* lines 64-83
team_keywords ==
    <<
       <<"adelaide", <<"adelaide", "crows">>>>,
       <<"brisbane", <<"brisbane", "lions">>>>,
       <<"carlton", <<"carlton", "blues">>>>,
       <<"collingwood", <<"collingwood", "magpies", "pies">>>>,
       <<"essendon", <<"essendon", "bombers">>>>,
       <<"fremantle", <<"fremantle", "dockers", "freo">>>>,
       <<"geelong", <<"geelong", "cats">>>>,
       <<"gold_coast", <<"gold coast", "suns">>>>,
       <<"gws", <<"gws", "giants", "greater western sydney">>>>,
       <<"hawthorn", <<"hawthorn", "hawks">>>>,
       <<"melbourne", <<"melbourne", "demons", "dees">>>>,
       <<"north_melbourne", <<"north melbourne", "kangaroos", "roos">>>>,
       <<"port_adelaide", <<"port adelaide", "power", "port">>>>,
       <<"richmond", <<"richmond", "tigers">>>>,
       <<"st_kilda", <<"st kilda", "saints">>>>,
       <<"sydney", <<"sydney", "swans">>>>,
       <<"west_coast", <<"west coast", "eagles">>>>,
       <<"western_bulldogs", <<"western bulldogs", "bulldogs", "dogs">>>>
    >>

\* lines 85-91
league_keywords ==
    <<
       <<"afl", <<"afl", "australian football league">>>>,
       <<"vfl", <<"vfl", "victorian football league">>>>,
       <<"sanfl", <<"sanfl", "south australian national football league">>>>,
       <<"wafl", <<"wafl", "west australian football league">>>>,
       <<"neafl", <<"neafl", "north east australian football league">>>>
    >>

\* lines 93-97
comparison_keywords ==
    <<
       <<"high", <<"high", "top", "best", "excellent", "great", "good", "above">>>>,
       <<"low", <<"low", "bottom", "worst", "poor", "below">>>>,
       <<"medium", <<"medium", "average", "moderate">>>>
    >>

\* lines 99-102
age_keywords ==
    <<
       <<"young", <<"young", "youth", "junior", "under">>>>,
       <<"experienced", <<"experienced", "veteran", "old", "senior", "over">>>>
    >>

Keywords(table, key) == table[CHOOSE i \in DOMAIN table : table[i][1] = key][2]

\* any(keyword in query for keyword in keywords)
AnyIn(keywords, q) == \E j \in DOMAIN keywords : Contains(q, keywords[j])

\* the keys of a table with a keyword in the query (list(set(...)): no order)
KeysIn(table, q) == {table[i][1] : i \in {k \in DOMAIN table : AnyIn(table[k][2], q)}}

\* str.find: the index, from 0, of the first occurrence, or -1
Find(q, k) ==
    IF Contains(q, k)
    THEN (CHOOSE i \in 1..Len(q) :
              StartsAt(q, i, k) /\ \A h \in 1..(i - 1) : ~StartsAt(q, h, k)) - 1
    ELSE -1

Abs(x) == IF x < 0 THEN -x ELSE x

Digits == <<"0", "1", "2", "3", "4", "5", "6", "7", "8", "9">>
IsDigitAt(q, i) == i >= 1 /\ i <= Len(q) /\ \E d \in 1..10 : Digits[d] = SubSeq(q, i, i)
DigitValue(c) == (CHOOSE d \in 1..10 : Digits[d] = c) - 1

\* int(s) of a string of digits
RECURSIVE ToInt(_)
ToInt(s) ==
    IF Len(s) = 0 THEN 0
    ELSE 10 * ToInt(SubSeq(s, 1, Len(s) - 1)) + DigitValue(SubSeq(s, Len(s), Len(s)))

\* lines 139-177
_extract_positions(q) == KeysIn(position_keywords, q)
_extract_teams(q) == KeysIn(team_keywords, q)
_extract_leagues(q) == KeysIn(league_keywords, q)
_extract_stats(q) == KeysIn(stat_keywords, q)

\* lines 182-183: re.findall of (?:under|over|above|below)?\s*(\d{1,2}) from
\* position i on: the optional word and blanks capture nothing, so the
\* captures are the runs of digits cut into pieces of two from the left
RECURSIVE AgeMatches(_, _)
AgeMatches(q, i) ==
    IF i > Len(q) THEN <<>>
    ELSE IF ~IsDigitAt(q, i) THEN AgeMatches(q, i + 1)
    ELSE IF IsDigitAt(q, i + 1)
         THEN <<ToInt(SubSeq(q, i, i + 1))>> \o AgeMatches(q, i + 2)
         ELSE <<ToInt(SubSeq(q, i, i))>> \o AgeMatches(q, i + 1)

\* lines 188-199: the loop over the matches
RECURSIVE AgeLoop(_, _, _)
AgeLoop(q, matches, range) ==
    IF Len(matches) = 0 THEN range
    ELSE LET age == matches[1]
             next == IF Contains(q, "under") \/ Contains(q, "below")
                         THEN <<range[1], Some(age)>>
                     ELSE IF Contains(q, "over") \/ Contains(q, "above")
                         THEN <<Some(age), range[2]>>
                     ELSE IF IsNone(range[1]) THEN <<Some(age), range[2]>>
                     ELSE <<range[1], Some(age)>>
         IN  AgeLoop(q, Tail(matches), next)

YoungDefault == 23
ExperiencedDefault == 28

\* (mutant) the pair returned as (max_age, min_age)
_extract_age_range_Swapped(q) ==
    LET found == AgeLoop(q, AgeMatches(q, 1), <<None, None>>)
    IN  <<found[2], found[1]>>

\* (mutant) the keyword defaults only for a query without a number
_extract_age_range_DefaultsWithoutNumber(q) ==
    LET found == AgeLoop(q, AgeMatches(q, 1), <<None, None>>)
        unset == Len(AgeMatches(q, 1)) = 0
        max_age == IF AnyIn(Keywords(age_keywords, "young"), q) /\ unset
                   THEN Some(YoungDefault) ELSE found[2]
        min_age == IF AnyIn(Keywords(age_keywords, "experienced"), q) /\ unset
                   THEN Some(ExperiencedDefault) ELSE found[1]
    IN  <<min_age, max_age>>

\* lines 179-210
_extract_age_range(q) ==
    LET found == AgeLoop(q, AgeMatches(q, 1), <<None, None>>)
        max_age == IF AnyIn(Keywords(age_keywords, "young"), q) /\ IsNone(found[2])
                   THEN Some(YoungDefault) ELSE found[2]
        min_age == IF AnyIn(Keywords(age_keywords, "experienced"), q) /\ IsNone(found[1])
                   THEN Some(ExperiencedDefault) ELSE found[1]
    IN  <<min_age, max_age>>

ProximityLimit == 50

\* lines 217-226 for one stat: every (keyword, comparison type) in loop order
\* that assigns comparisons[stat]; the last assignment stays
ComparisonHits(q, keywords) ==
    {h \in (DOMAIN keywords) \X (DOMAIN comparison_keywords) :
        /\ Contains(q, keywords[h[1]])
        /\ \E m \in DOMAIN comparison_keywords[h[2]][2] :
               LET comp_keyword == comparison_keywords[h[2]][2][m]
               IN  /\ Contains(q, comp_keyword)
                   /\ Abs(Find(q, keywords[h[1]]) - Find(q, comp_keyword)) < ProximityLimit}

LastHit(hits) ==
    CHOOSE h \in hits :
        \A g \in hits : g[1] < h[1] \/ (g[1] = h[1] /\ g[2] <= h[2])

\* lines 212-228: the dict as its items in insertion order (the order of
\* stat_keywords)
RECURSIVE ComparisonsFrom(_, _)
ComparisonsFrom(q, i) ==
    IF i > Len(stat_keywords) THEN <<>>
    ELSE LET hits == ComparisonHits(q, stat_keywords[i][2])
         IN  (IF hits = {} THEN <<>>
              ELSE <<<<stat_keywords[i][1], comparison_keywords[LastHit(hits)[2]][1]>>>>)
             \o ComparisonsFrom(q, i + 1)

_extract_comparisons(q) == ComparisonsFrom(q, 1)

sort_keywords == <<"best", "top", "highest", "most", "leading">>

\* lines 230-242: the first stat, in table order, with a keyword in the query
_extract_sort_criteria(q) ==
    IF AnyIn(sort_keywords, q) /\ \E i \in DOMAIN stat_keywords : AnyIn(stat_keywords[i][2], q)
    THEN Some(stat_keywords[CHOOSE i \in DOMAIN stat_keywords :
                                /\ AnyIn(stat_keywords[i][2], q)
                                /\ \A h \in 1..(i - 1) : ~AnyIn(stat_keywords[h][2], q)][1])
    ELSE None

\* the position after the blanks that start at i
RECURSIVE SkipBlanks(_, _)
SkipBlanks(q, i) ==
    IF i <= Len(q) /\ SubSeq(q, i, i) = " " THEN SkipBlanks(q, i + 1) ELSE i

\* the end of the run of digits that starts at i
RECURSIVE DigitsEnd(_, _)
DigitsEnd(q, i) == IF IsDigitAt(q, i + 1) THEN DigitsEnd(q, i + 1) ELSE i

limit_words == <<"top", "best", "first">>
DefaultLimit == 10

\* (?:top|best|first)\s*(\d+) matches at position i
LimitMatchAt(q, i) ==
    \E w \in DOMAIN limit_words :
        /\ StartsAt(q, i, limit_words[w])
        /\ IsDigitAt(q, SkipBlanks(q, i + Len(limit_words[w])))

LimitMatchValue(q, i) ==
    LET w == CHOOSE w \in DOMAIN limit_words : StartsAt(q, i, limit_words[w])
        d == SkipBlanks(q, i + Len(limit_words[w]))
    IN  ToInt(SubSeq(q, d, DigitsEnd(q, d)))

\* lines 244-257
_extract_limit(q) ==
    IF \E i \in 1..Len(q) : LimitMatchAt(q, i)
    THEN Some(LimitMatchValue(q, CHOOSE i \in 1..Len(q) :
                  LimitMatchAt(q, i) /\ \A h \in 1..(i - 1) : ~LimitMatchAt(q, h)))
    ELSE IF AnyIn(<<"top", "best", "leading">>, q) THEN Some(DefaultLimit)
    ELSE None

\* lines 259-272
_determine_query_type(q) ==
    IF AnyIn(<<"find", "show", "list", "get">>, q) THEN "search"
    ELSE IF AnyIn(<<"compare", "vs", "versus">>, q) THEN "comparison"
    ELSE IF AnyIn(<<"analyze", "analysis", "breakdown">>, q) THEN "analysis"
    ELSE IF AnyIn(<<"rank", "ranking", "top", "best">>, q) THEN "ranking"
    ELSE IF AnyIn(<<"predict", "forecast", "potential">>, q) THEN "prediction"
    ELSE "search"

\* lines 280-288, in hundredths
weights ==
    <<<<"positions", 20>>, <<"teams", 15>>, <<"leagues", 10>>, <<"stats", 30>>,
      <<"age_range", 10>>, <<"comparisons", 10>>, <<"sort_by", 5>>>>

\* (mutant) the stats looked up under a misspelt key, so they never count
CountsWithoutStats(f, filter_type) ==
    CASE filter_type \in {"positions", "teams", "leagues"} -> f[filter_type] # {}
      [] filter_type = "stats" -> FALSE
      [] filter_type = "comparisons" -> f.comparisons # <<>>
      [] filter_type = "age_range" ->
             \E k \in 1..2 : ~IsNone(f.age_range[k]) /\ Val(f.age_range[k]) # 0
      [] filter_type = "sort_by" -> ~IsNone(f.sort_by) /\ Val(f.sort_by) # ""

\* lines 292-300: the filter counts when its value is truthy; of the
\* age_range tuple, when one of its bounds is (not None and not 0)
Counts(f, filter_type) ==
    CASE filter_type \in {"positions", "teams", "leagues", "stats"} -> f[filter_type] # {}
      [] filter_type = "comparisons" -> f.comparisons # <<>>
      [] filter_type = "age_range" ->
             \E k \in 1..2 : ~IsNone(f.age_range[k]) /\ Val(f.age_range[k]) # 0
      [] filter_type = "sort_by" -> ~IsNone(f.sort_by) /\ Val(f.sort_by) # ""

RECURSIVE WeightSum(_, _, _)
WeightSum(f, i, all) ==
    IF i > Len(weights) THEN 0
    ELSE (IF all \/ Counts(f, weights[i][1]) THEN weights[i][2] ELSE 0)
         + WeightSum(f, i + 1, all)

\* (mutant) total_weight accumulated in the list branch only
_calculate_confidence_ListTotal(f) ==
    LET confidence   == WeightSum(f, 1, FALSE)
        total_weight == WeightSum([f EXCEPT !.age_range = <<None, None>>,
                                            !.comparisons = <<>>,
                                            !.sort_by = None], 1, FALSE)
    IN  IF total_weight > 0 THEN (100 * confidence) \div total_weight ELSE 0

\* lines 274-302: confidence / total_weight, in hundredths (the float sums
\* add the same weights in the same order, so the quotient is the exact one
\* rounded)
_calculate_confidence(f) ==
    LET confidence   == WeightSum(f, 1, FALSE)
        total_weight == WeightSum(f, 1, TRUE)
    IN  IF total_weight > 0 THEN (100 * confidence) \div total_weight ELSE 0

\* lines 104-137
process_query(q) ==
    LET query_lower == Lower(q)
        f == [positions   |-> _extract_positions(query_lower),
              teams       |-> _extract_teams(query_lower),
              leagues     |-> _extract_leagues(query_lower),
              stats       |-> _extract_stats(query_lower),
              age_range   |-> _extract_age_range(query_lower),
              comparisons |-> _extract_comparisons(query_lower),
              sort_by     |-> _extract_sort_criteria(query_lower),
              limit       |-> _extract_limit(query_lower)]
    IN  [original_query |-> q,
         query_type     |-> _determine_query_type(query_lower),
         filters        |-> f,
         confidence     |-> _calculate_confidence(f)]

(***************************************************************************)
(* The queries: up to MaxWords words of the vocabulary separated by one    *)
(* blank, the example queries of main() and of spec.md, one query that     *)
(* names every kind of filter, and queries that name two stats or an age   *)
(* keyword next to a number.                                               *)
(***************************************************************************)
Vocabulary ==
    {"top", "first", "most", "5", "0", "under", "over", "young", "high",
     "disposals", "Midfielders", "Carlton", "AFL"}

RECURSIVE Join(_)
Join(ws) ==
    IF Len(ws) = 0 THEN ""
    ELSE IF Len(ws) = 1 THEN ws[1]
    ELSE ws[1] \o " " \o Join(Tail(ws))

ExampleQueries ==
    {"Find midfielders under 23 with high disposal counts",
     "Find midfielders under 23 with high clearance rates in the VFL",
     "Show me the top 10 key forwards with best goal accuracy",
     "Compare Carlton players vs Richmond players for contested possessions",
     "List young defenders with good marking ability",
     "Top 5 Carlton midfielders under 23 with high disposals in the AFL"}

TwoStatQueries ==
    {"high disposals low marks", "high disposals marks", "marks with low tackles"}

AgeQueries ==
    {"veterans under 30", "young players over 20", "players aged 25 to 30"}

Queries ==
    ExampleQueries \cup TwoStatQueries \cup AgeQueries \cup
    UNION {{Join(ws) : ws \in [1..n -> Vocabulary]} : n \in 0..MaxWords}

NoFrame == Frame({}, <<>>)

InitQuery ==
    /\ pc = "asked"
    /\ query \in Queries
    /\ answer = NoAnswer
    /\ EvalIdle
    /\ df = NoFrame
    /\ filters = NoFilters
    /\ result = [frame |-> NoFrame, raised |-> FALSE]
    /\ result2 = [frame |-> NoFrame, raised |-> FALSE]

\* the dashboard hands the user's text to process_query
ProcessQuery ==
    /\ pc = "asked"
    /\ answer' = process_query(query)
    /\ pc' = "answered"
    /\ UNCHANGED <<df, filters, result, result2, query, evalVars>>

NextQuery == ProcessQuery

SpecQuery == InitQuery /\ [][NextQuery]_vars

C11_ScenarioA ==
    (pc = "answered" /\ query = "Find midfielders under 23 with high disposal counts")
    => /\ answer.filters.positions = {"midfielder"}
       /\ answer.filters.age_range = <<None, Some(23)>>
       /\ "disposals" \in answer.filters.stats
       /\ answer.filters.comparisons = <<<<"disposals", "high">>>>
       /\ answer.confidence > 0

C11_Witness ==
    /\ pc = "answered"
    /\ query = "Find midfielders under 23 with high disposal counts"
    /\ answer.query_type = "search"
    /\ answer.confidence = 70

(***************************************************************************)
(* The evaluation engine, src/app/models/enhanced_ml_models.py.            *)
(*                                                                         *)
(* Numbers.  A numeric cell of a samples frame is a fraction <<n, d>> in   *)
(* lowest terms with d > 0, or NaN (None, <<>>) where the value is         *)
(* missing.  The arithmetic is exact; the floats of the code round it.     *)
(***************************************************************************)
NaN == None

RECURSIVE GCD(_, _)
GCD(a, b) == IF b = 0 THEN a ELSE GCD(b, a % b)

Rat(n, d) ==
    IF d = 1 THEN <<n, 1>>
    ELSE LET g == GCD(Abs(n), Abs(d))
             sgn == IF d < 0 THEN -1 ELSE 1
         IN  <<(sgn * n) \div g, (sgn * d) \div g>>

Num(n) == <<n, 1>>

\* float arithmetic: NaN in, NaN out
Add(a, b) == IF a = NaN \/ b = NaN THEN NaN ELSE Rat(a[1] * b[2] + b[1] * a[2], a[2] * b[2])
Sub(a, b) == IF a = NaN \/ b = NaN THEN NaN ELSE Rat(a[1] * b[2] - b[1] * a[2], a[2] * b[2])
Mul(a, b) == IF a = NaN \/ b = NaN THEN NaN ELSE Rat(a[1] * b[1], a[2] * b[2])
\* the divisors of the model are never 0
Div(a, b) == IF a = NaN \/ b = NaN THEN NaN ELSE Rat(a[1] * b[2], a[2] * b[1])
\* a < b, False when either is NaN
Less(a, b) == a # NaN /\ b # NaN /\ a[1] * b[2] < b[1] * a[2]

RECURSIVE Sum(_)
Sum(xs) == IF Len(xs) = 0 THEN Num(0) ELSE Add(xs[1], Sum(Tail(xs)))

\* the values of a sequence that are not NaN
Present(xs) == SelectSeq(xs, LAMBDA x : x # NaN)

(***************************************************************************)
(* prepare_features, lines 33-72.                                          *)
(***************************************************************************)
\* line 36: the sort key of a row, (player_id, year, games_played)
SampleKeyLE(a, b) ==
    \/ Less(a["player_id"], b["player_id"])
    \/ /\ a["player_id"] = b["player_id"]
       /\ \/ Less(a["year"], b["year"])
          \/ /\ a["year"] = b["year"]
             /\ ~Less(b["games_played"], a["games_played"])

\* line 36: sort_values on several keys is a stable sort
RECURSIVE SortSamples(_)
SortSamples(rows) ==
    IF Len(rows) = 0 THEN <<>>
    ELSE LET sorted == SortSamples(SubSeq(rows, 1, Len(rows) - 1))
             last == rows[Len(rows)]
             before == SelectSeq(sorted, LAMBDA r : SampleKeyLE(r, last))
             after == SelectSeq(sorted, LAMBDA r : ~SampleKeyLE(r, last))
         IN  before \o <<last>> \o after

\* line 41: unique() of a column, in order of first appearance
RECURSIVE Unique(_)
Unique(xs) ==
    IF Len(xs) = 0 THEN <<>>
    ELSE LET init == Unique(SubSeq(xs, 1, Len(xs) - 1))
         IN  IF xs[Len(xs)] \in Range(init) THEN init ELSE Append(init, xs[Len(xs)])

Column(rows, col) == [i \in DOMAIN rows |-> rows[i][col]]

\* lines 49-50
rolling_cols ==
    <<"kicks", "marks", "handballs", "disposals", "goals", "tackles",
      "inside_50s", "clearances", "contested_possessions">>

RollingWindow == 10
TrendWindow == 5

\* rolling(window, min_periods=1): the window that ends at sample i
WindowAt(xs, i, window) == SubSeq(xs, Max(1, i - window + 1), i)

\* (mutant) the mean taken over the window of the trend
RollingMeanTrendWindow(xs, i) ==
    LET w == Present(WindowAt(xs, i, TrendWindow))
    IN  IF Len(w) >= 1 THEN Div(Sum(w), Num(Len(w))) ELSE NaN

\* line 53: rolling(window=10, min_periods=1).mean() at sample i: the mean of
\* the values present in the window, NaN when there is none
RollingMean(xs, i) ==
    LET w == Present(WindowAt(xs, i, RollingWindow))
    IN  IF Len(w) >= 1 THEN Div(Sum(w), Num(Len(w))) ELSE NaN

\* line 55: np.polyfit(range(len(x)), x, 1)[0], the least-squares slope of w
\* over 0 .. len(w)-1; NaN when a value of w is NaN
Slope(w) ==
    LET m == Len(w)
        Sx == (m * (m - 1)) \div 2                  \* sum of 0 .. m-1
        Sxx == ((m - 1) * m * (2 * m - 1)) \div 6   \* sum of their squares
        Sy == Sum(w)
        Sxy == Sum([k \in 1..m |-> Mul(Num(k - 1), w[k])])
    IN  Div(Sub(Mul(Num(m), Sxy), Mul(Num(Sx), Sy)), Num(m * Sxx - Sx * Sx))

\* lines 54-56: rolling(window=5, min_periods=1).apply(...) at sample i
Trend(xs, i) ==
    LET w == WindowAt(xs, i, TrendWindow)
    IN  IF Len(Present(w)) < 1 THEN NaN
        ELSE IF Len(w) > 1 THEN Slope(w) ELSE Num(0)

\* line 46: Series.min() skips NaN
SeriesMin(xs) ==
    LET p == Range(Present(xs))
    IN  IF p = {} THEN NaN ELSE CHOOSE x \in p : \A y \in p : ~Less(y, x)

AvgName(col) == col \o "_avg_10"
TrendName(col) == col \o "_trend"

\* lines 45-67: the columns the loop body adds to a frame with columns cols
DerivedColumns(cols) ==
    {"career_games", "seasons_played"}
    \cup {AvgName(rolling_cols[k]) : k \in {h \in DOMAIN rolling_cols : rolling_cols[h] \in cols}}
    \cup {TrendName(rolling_cols[k]) : k \in {h \in DOMAIN rolling_cols : rolling_cols[h] \in cols}}
    \cup (IF {"disposals", "clangers"} \subseteq cols THEN {"disposal_efficiency"} ELSE {})
    \cup (IF {"goals", "behinds"} \subseteq cols THEN {"goal_accuracy"} ELSE {})
    \cup (IF "brownlow_votes" \in cols THEN {"brownlow_rate"} ELSE {})

\* lines 52-57: the two derived cells of each rolling column from the k-th
\* on, for sample i
RECURSIVE RollingCells(_, _, _, _)
RollingCells(rows, cols, i, k) ==
    IF k > Len(rolling_cols) THEN <<>>
    ELSE LET col == rolling_cols[k]
             rest == RollingCells(rows, cols, i, k + 1)
         IN  IF col \in cols
             THEN (AvgName(col) :> RollingMean(Column(rows, col), i))
                  @@ (TrendName(col) :> Trend(Column(rows, col), i))
                  @@ rest
             ELSE rest

\* lines 42-69: the rows of one player, in order, with their derived columns
\* (a derived column replaces a column of the same name)
PlayerFeatures(rows, cols) ==
    LET min_year == SeriesMin(Column(rows, "year"))
        Derived(i) ==
            ("career_games" :> Num(i))
            @@ ("seasons_played" :> Add(Sub(rows[i]["year"], min_year), Num(1)))
            @@ RollingCells(rows, cols, i, 1)
            @@ (IF {"disposals", "clangers"} \subseteq cols
                THEN "disposal_efficiency" :>
                         Div(Sub(rows[i]["disposals"], rows[i]["clangers"]),
                             Add(rows[i]["disposals"], Num(1)))
                ELSE <<>>)
            @@ (IF {"goals", "behinds"} \subseteq cols
                THEN "goal_accuracy" :>
                         Div(rows[i]["goals"],
                             Add(Add(rows[i]["goals"], rows[i]["behinds"]), Num(1)))
                ELSE <<>>)
            @@ (IF "brownlow_votes" \in cols
                THEN "brownlow_rate" :> Div(rows[i]["brownlow_votes"], Add(Num(i), Num(1)))
                ELSE <<>>)
    IN  [i \in DOMAIN rows |-> Derived(i) @@ rows[i]]

RECURSIVE Flatten(_)
Flatten(seqs) == IF Len(seqs) = 0 THEN <<>> ELSE seqs[1] \o Flatten(Tail(seqs))

\* lines 33-72.  A frame without the sort keys raises KeyError, and
\* pd.concat of an empty list (a frame without rows) raises ValueError.
prepare_features(data) ==
    IF ~({"player_id", "year", "games_played"} \subseteq data.columns) \/ Len(data.rows) = 0
    THEN [frame |-> NoFrame, raised |-> TRUE]
    ELSE LET sorted == SortSamples(data.rows)
             ids == Unique(Column(sorted, "player_id"))
             OfPlayer(id) == SelectSeq(sorted, LAMBDA r : r["player_id"] = id)
         IN  [frame |-> Frame(data.columns \cup DerivedColumns(data.columns),
                              Flatten([k \in DOMAIN ids |->
                                          PlayerFeatures(OfPlayer(ids[k]), data.columns)])),
              raised |-> FALSE]

(***************************************************************************)
(* The samples given to prepare_features: one player's season of up to     *)
(* MaxSamples games, and frames of up to MaxMixed rows, in any order, of   *)
(* two players over several seasons, some with a missing value.            *)
(***************************************************************************)
PerfColumns ==
    {"player_id", "year", "games_played", "disposals", "goals",
     "clangers", "behinds", "brownlow_votes"}

PerfColumnSets == {PerfColumns, PerfColumns \ {"goals", "clangers", "brownlow_votes"}}

Sample(id, year, game, d, g) ==
    [player_id |-> Num(id), year |-> Num(year), games_played |-> Num(game),
     disposals |-> d, goals |-> g, clangers |-> Num(1), behinds |-> Num(1),
     brownlow_votes |-> g]

Samples ==
    {Sample(1, 2020, 1, Num(3), Num(1)),
     Sample(1, 2020, 2, Num(0), Num(0)),
     Sample(1, 2022, 1, NaN, Num(2)),
     Sample(2, 2021, 1, Num(6), Num(0))}

Restrict(row, cols) == [c \in cols |-> row[c]]

SamplesFrame(rows, cols) == Frame(cols, [i \in DOMAIN rows |-> Restrict(rows[i], cols)])

DisposalValues == {Num(0), Num(3)}

\* one player's season: game i with ds[i] disposals
SeasonFrame(ds) ==
    SamplesFrame([i \in DOMAIN ds |-> Sample(1, 2020, i, ds[i], Num(0))], PerfColumns)

QueryIdle ==
    /\ df = NoFrame
    /\ filters = NoFilters
    /\ result = [frame |-> NoFrame, raised |-> FALSE]
    /\ result2 = [frame |-> NoFrame, raised |-> FALSE]
    /\ query = ""
    /\ answer = NoAnswer

InitFeatures ==
    /\ pc = "samples"
    /\ \/ \E n \in 0..MaxSamples : \E ds \in [1..n -> DisposalValues] :
              performance_data = SeasonFrame(ds)
       \/ \E n \in 0..MaxMixed : \E rows \in [1..n -> Samples] : \E cols \in PerfColumnSets :
              performance_data = SamplesFrame(rows, cols)
    /\ features = <<>>
    /\ model = <<>>
    /\ model_dir = <<>>
    /\ projection = <<>>
    /\ scored = <<>>
    /\ args = <<>>
    /\ QueryIdle

\* a caller derives the features of its samples
PrepareFeatures ==
    /\ pc = "samples"
    /\ features' = prepare_features(performance_data)
    /\ pc' = "derived"
    /\ UNCHANGED <<performance_data, model, model_dir, projection, scored, args, queryVars>>

NextFeatures == PrepareFeatures

SpecFeatures == InitFeatures /\ [][NextFeatures]_vars

\* the rows of a player in a frame, in the frame's order
RowsOf(frame, id) == SelectSeq(frame.rows, LAMBDA r : r["player_id"] = id)

\* rows in time order: by year, then by games_played
TimeOrdered(rows) ==
    \A i \in 1..(Len(rows) - 1) :
        \/ Less(rows[i]["year"], rows[i + 1]["year"])
        \/ /\ rows[i]["year"] = rows[i + 1]["year"]
           /\ ~Less(rows[i + 1]["games_played"], rows[i]["games_played"])

TrackedStats(cols) == {rolling_cols[k] : k \in DOMAIN rolling_cols} \cap cols

\* C12: the returned rows of an entity are its samples in time order, and for
\* each tracked stat the rolling mean at the i-th sample is the plain mean
\* of samples 1..i when i <= 10 and of samples i-9..i when i > 10 (where each
\* of these samples has a value).
C12_RollingMean ==
    (pc = "derived" /\ ~features.raised) =>
        \A id \in {r["player_id"] : r \in Range(performance_data.rows)} :
            LET rows == RowsOf(features.frame, id)
            IN  /\ TimeOrdered(rows)
                /\ Len(rows) = Len(RowsOf(performance_data, id))
                /\ \A col \in TrackedStats(performance_data.columns) :
                   \A i \in DOMAIN rows :
                       LET xs == Column(rows, col)
                           first == IF i <= 10 THEN 1 ELSE i - 9
                           n == IF i <= 10 THEN i ELSE 10
                       IN  (\A k \in first..i : xs[k] # NaN)
                           => rows[i][AvgName(col)] = Div(Sum(SubSeq(xs, first, i)), Num(n))

\* an entity with more than 10 samples whose latest rolling mean differs from
\* the mean of all its samples
C12_Witness ==
    /\ pc = "derived"
    /\ ~features.raised
    /\ Len(features.frame.rows) > 10
    /\ LET rows == features.frame.rows
           xs == Column(rows, "disposals")
       IN  /\ \A k \in DOMAIN xs : xs[k] # NaN
           /\ rows[Len(rows)]["disposals_avg_10"] # Div(Sum(xs), Num(Len(xs)))
           /\ rows[Len(rows)]["disposals_avg_10"] = Div(Sum(SubSeq(xs, Len(xs) - 9, Len(xs))), Num(10))

(***************************************************************************)
(* predict_player_potential, lines 156-235, and what it calls.             *)
(*                                                                         *)
(* A pickled scaler is [columns, mean, scale]: the columns it was fitted   *)
(* on and the mean and scale it standardises each of them with.  A pickled *)
(* model is [weights]: it predicts the sum of its weights times the scaled *)
(* features.  The dicts models and scalers are functions from names.       *)
(***************************************************************************)
EmptyDict == <<>>

\* lines 331-360.  os.listdir of a missing directory raises, and the except
\* branch clears is_trained; a pickle that is found replaces the entry.
_load_models(m, dir) ==
    IF dir = None
    THEN [m EXCEPT !.is_trained = FALSE]
    ELSE [models          |-> dir.models @@ m.models,
          scalers         |-> dir.scalers @@ m.scalers,
          feature_columns |-> IF dir.feature_columns = None THEN m.feature_columns
                              ELSE Val(dir.feature_columns),
          is_trained      |-> TRUE]

\* (mutant) the boundaries taken inclusively: age <= 20, <= 25, <= 30, <= 33
_calculate_age_factor_Inclusive(age) ==
    IF ~Less(Num(20), age) THEN Rat(110, 100)
    ELSE IF ~Less(Num(25), age) THEN Rat(105, 100)
    ELSE IF ~Less(Num(30), age) THEN Rat(100, 100)
    ELSE IF ~Less(Num(33), age) THEN Rat(95, 100)
    ELSE Rat(90, 100)

\* lines 237-248
_calculate_age_factor(age) ==
    IF Less(age, Num(20)) THEN Rat(110, 100)
    ELSE IF Less(age, Num(25)) THEN Rat(105, 100)
    ELSE IF Less(age, Num(30)) THEN Rat(100, 100)
    ELSE IF Less(age, Num(33)) THEN Rat(95, 100)
    ELSE Rat(90, 100)

\* lines 250-261
_determine_career_stage(age) ==
    IF Less(age, Num(22)) THEN "Developing"
    ELSE IF Less(age, Num(26)) THEN "Emerging"
    ELSE IF Less(age, Num(30)) THEN "Peak"
    ELSE IF Less(age, Num(33)) THEN "Experienced"
    ELSE "Veteran"

\* a >= b, False when either is NaN
AtLeast(a, b) == a # NaN /\ b # NaN /\ a[1] * b[2] >= b[1] * a[2]

\* Series.mean(): the mean of the values present, NaN when there is none
SeriesMean(xs) ==
    LET p == Present(xs)
    IN  IF Len(p) = 0 THEN NaN ELSE Div(Sum(p), Num(Len(p)))

\* lines 263-279
_assess_injury_risk(rows) ==
    LET years == Unique(Column(rows, "year"))
        recent_seasons == IF Len(years) >= 3 THEN SubSeq(years, Len(years) - 2, Len(years))
                          ELSE years
        games_per_season ==
            [k \in DOMAIN recent_seasons |->
                Num(Len(SelectSeq(rows, LAMBDA r : r["year"] = recent_seasons[k])))]
        avg_games == SeriesMean(games_per_season)
    IN  IF AtLeast(avg_games, Num(20)) THEN "Low"
        ELSE IF AtLeast(avg_games, Num(15)) THEN "Moderate"
        ELSE "High"

\* tail(n)
Tail_(rows, n) == SubSeq(rows, Max(1, Len(rows) - n + 1), Len(rows))

\* lines 281-304
_identify_development_areas(frame) ==
    LET recent_form == Tail_(frame.rows, 10)
        contested == Sum(Present(Column(recent_form, "contested_possessions")))
        disposals == Sum(Present(Column(recent_form, "disposals")))
    IN  (IF "goal_accuracy" \in frame.columns
            /\ Less(SeriesMean(Column(recent_form, "goal_accuracy")), Rat(6, 10))
         THEN <<"Goal Accuracy">> ELSE <<>>)
        \o (IF "disposal_efficiency" \in frame.columns
               /\ Less(SeriesMean(Column(recent_form, "disposal_efficiency")), Rat(7, 10))
            THEN <<"Disposal Efficiency">> ELSE <<>>)
        \o (IF {"contested_possessions", "disposals"} \subseteq frame.columns
               /\ disposals # Num(0)
               /\ Less(Div(contested, disposals), Rat(4, 10))
            THEN <<"Contested Ball Winning">> ELSE <<>>)

\* a one-row frame of features: its columns in order, and their values
Vector(cols, vals) == [columns |-> cols, values |-> vals]

\* line 186: recent_form[self.feature_columns].fillna(0)
SelectFillna(row, cols) ==
    Vector(cols, [k \in DOMAIN cols |-> IF row[cols[k]] = NaN THEN Num(0) ELSE row[cols[k]]])

\* lines 202-204: proj_features[col] = v replaces the column, or appends it
SetColumn(X, col, v) ==
    IF col \in Range(X.columns)
    THEN Vector(X.columns, [k \in DOMAIN X.columns |-> IF X.columns[k] = col THEN v ELSE X.values[k]])
    ELSE Vector(Append(X.columns, col), Append(X.values, v))

\* lines 208-210: the columns with 'trend' in their name, times the factor
ScaleTrends(X, factor) ==
    Vector(X.columns,
           [k \in DOMAIN X.columns |->
               IF Contains(X.columns[k], "trend") THEN Mul(X.values[k], factor) ELSE X.values[k]])

GamesPerYear == 22

\* (mutant) each year's features made from the features of the year before
ProjectionFeaturesCompounding(X_current, recent_form, year) ==
    LET AgeAt(y) == Add(recent_form["age"], Num(y))
        Factors == [y \in 1..year |-> _calculate_age_factor(AgeAt(y))]
        RECURSIVE Product(_)
        Product(y) == IF y = 0 THEN Num(1) ELSE Mul(Factors[y], Product(y - 1))
    IN  ScaleTrends(
            SetColumn(
                SetColumn(
                    SetColumn(X_current, "age", AgeAt(year)),
                    "career_games", Add(recent_form["career_games"], Num(GamesPerYear * year))),
                "seasons_played", Add(recent_form["seasons_played"], Num(year))),
            Product(year))

\* lines 195-210: the features of the projection `year` years ahead
ProjectionFeatures(X_current, recent_form, year) ==
    LET projected_age == Add(recent_form["age"], Num(year))
        projected_games == Add(recent_form["career_games"], Num(GamesPerYear * year))
    IN  ScaleTrends(
            SetColumn(
                SetColumn(
                    SetColumn(X_current, "age", projected_age),
                    "career_games", projected_games),
                "seasons_played", Add(recent_form["seasons_played"], Num(year))),
            _calculate_age_factor(projected_age))

\* StandardScaler.transform raises on features other than those of the fit
CanTransform(scaler, X) == X.columns = scaler.columns

\* StandardScaler.transform: (x - mean) / scale
transform(scaler, X) ==
    [k \in DOMAIN X.values |-> Div(Sub(X.values[k], scaler.mean[k]), scaler.scale[k])]

\* models['player_value'].predict(...)[0]
predict(scorer, xs) == Sum([k \in DOMAIN xs |-> Mul(scorer.weights[k], xs[k])])

Error(msg) == [error |-> msg]

\* (mutant) the peak taken to be the last projection
PeakOfLast(projections) == projections[Len(projections)]

\* max(projections, key=lambda x: x['projected_impact']): the first maximum
PeakOf(projections) ==
    projections[CHOOSE k \in DOMAIN projections :
                    /\ \A h \in DOMAIN projections :
                           ~Less(projections[k].projected_impact, projections[h].projected_impact)
                    /\ \A h \in 1..(k - 1) :
                           Less(projections[h].projected_impact, projections[k].projected_impact)]

\* one entry of `scored`: the features handed to scaler.transform, the age
\* they are for and the age factor that was applied (1 for the current ones)
Scored(X, age, factor) == [features |-> X, age |-> age, age_factor |-> factor]

\* lines 163-175: the rows of the player, ORDER BY year, games_played
PlayerData(db, player_id) ==
    Frame(db.columns, SortSamples(SelectSeq(db.rows, LAMBDA r : r["player_id"] = Num(player_id))))

\* lines 183-231, with the scorer at hand: the dict returned, and the
\* features handed to the scaler
Project(m, player_data, features_df, player_id, projection_years) ==
    LET recent_form == features_df.rows[Len(features_df.rows)]
        X_current == SelectFillna(recent_form, m.feature_columns)
        scaler == m.scalers["player_value"]
        scorer == m.models["player_value"]
        current_impact == predict(scorer, transform(scaler, X_current))
        current_age == recent_form["age"]
        first == Scored(X_current, current_age, Num(1))
        Step(year) ==
            LET X == ProjectionFeatures(X_current, recent_form, year)
            IN  Scored(X, Add(current_age, Num(year)),
                       _calculate_age_factor(Add(current_age, Num(year))))
        projections ==
            [year \in 1..projection_years |->
                [year |-> year,
                 age |-> Add(current_age, Num(year)),
                 projected_impact |-> predict(scorer, transform(scaler, Step(year).features)),
                 career_games |-> Add(recent_form["career_games"], Num(GamesPerYear * year))]]
    IN  IF ~(Range(m.feature_columns) \subseteq features_df.columns)
        THEN [ret |-> Error("not in index"), scored |-> <<>>]
        ELSE IF "player_value" \notin DOMAIN m.scalers
        THEN [ret |-> Error("'player_value'"), scored |-> <<>>]
        ELSE IF ~CanTransform(scaler, X_current)
        THEN [ret |-> Error("X has a different number of features"), scored |-> <<first>>]
        ELSE IF "player_value" \notin DOMAIN m.models
        THEN [ret |-> Error("'player_value'"), scored |-> <<first>>]
        ELSE IF "age" \notin features_df.columns
        THEN [ret |-> Error("'age'"), scored |-> <<first>>]
        ELSE IF projection_years >= 1 /\ ~CanTransform(scaler, Step(1).features)
        THEN [ret |-> Error("X has a different number of features"),
              scored |-> <<first, Step(1)>>]
        ELSE IF projection_years < 1
        THEN [ret |-> Error("max() arg is an empty sequence"), scored |-> <<first>>]
        ELSE [ret |-> [player_id |-> player_id,
                       current_impact_score |-> current_impact,
                       current_age |-> current_age,
                       career_stage |-> _determine_career_stage(current_age),
                       projections |-> projections,
                       peak_projection |-> PeakOf(projections),
                       injury_risk |-> _assess_injury_risk(player_data.rows),
                       development_areas |-> _identify_development_areas(features_df)],
              scored |-> <<first>> \o [year \in 1..projection_years |-> Step(year)]]

\* (mutant) a missing scorer answered with scores of 0
predict_player_potential_SilentZero(m, dir, db, player_id, projection_years) ==
    LET loaded == IF ~m.is_trained THEN _load_models(m, dir) ELSE m
        player_data == PlayerData(db, player_id)
        features_df == prepare_features(player_data)
    IN  IF "player_value" \notin DOMAIN loaded.models \/ "player_value" \notin DOMAIN loaded.scalers
        THEN [model |-> loaded,
              ret |-> [player_id |-> player_id, current_impact_score |-> Num(0),
                       projections |-> <<>>],
              scored |-> <<>>]
        ELSE IF Len(player_data.rows) = 0
        THEN [model |-> loaded, ret |-> Error("No data found for player"), scored |-> <<>>]
        ELSE LET out == Project(loaded, player_data, features_df.frame, player_id, projection_years)
             IN  [model |-> loaded, ret |-> out.ret, scored |-> out.scored]

\* lines 156-235: the instance after the call, the dict returned, and the
\* features handed to the scaler
predict_player_potential(m, dir, db, player_id, projection_years) ==
    LET loaded == IF ~m.is_trained THEN _load_models(m, dir) ELSE m
        player_data == PlayerData(db, player_id)
        features_df == prepare_features(player_data)
    IN  IF Len(player_data.rows) = 0
        THEN [model |-> loaded, ret |-> Error("No data found for player"), scored |-> <<>>]
        ELSE IF features_df.raised
        THEN [model |-> loaded, ret |-> Error("prepare_features"), scored |-> <<>>]
        ELSE LET out == Project(loaded, player_data, features_df.frame, player_id, projection_years)
             IN  [model |-> loaded, ret |-> out.ret, scored |-> out.scored]

(***************************************************************************)
(* The projection runs: a database of two players (player 3 has no rows),  *)
(* player 1 with one of a few histories and an age of 16 .. MaxAge; an     *)
(* instance that is fresh or trained; a models directory that is missing,  *)
(* empty, complete or partial; a horizon of 0 .. MaxYears years.           *)
(***************************************************************************)
\* lines 108-114
feature_cols ==
    <<"career_games", "seasons_played", "age", "height", "weight",
      "kicks_avg_10", "marks_avg_10", "handballs_avg_10", "disposals_avg_10",
      "goals_avg_10", "tackles_avg_10", "inside_50s_avg_10", "clearances_avg_10",
      "disposal_efficiency", "goal_accuracy", "brownlow_rate",
      "kicks_trend", "disposals_trend", "goals_trend">>

DbColumns == PerfColumns \cup {"age"}

\* line 117: the feature columns of a training on the database's columns
TrainedColumns ==
    SelectSeq(feature_cols, LAMBDA c : c \in DbColumns \cup DerivedColumns(DbColumns))

\* the columns of a pickle made before the age was a feature
StaleColumns == SelectSeq(TrainedColumns, LAMBDA c : c # "age")

FittedScaler(cols) ==
    [columns |-> cols,
     mean    |-> [k \in DOMAIN cols |-> Num(1)],
     scale   |-> [k \in DOMAIN cols |-> Num(2)]]

\* a fitted model: it weighs the age by 1, the two counters by 0 and the
\* k-th of the other features by k, so that its score rises with the age
\* and falls when the age factor of a positive trend does
FittedModel(cols) ==
    [weights |-> [k \in DOMAIN cols |->
                     IF cols[k] = "age" THEN Num(1)
                     ELSE IF cols[k] \in {"career_games", "seasons_played"} THEN Num(0)
                     ELSE Num(k)]]

Fresh ==
    [models |-> EmptyDict, scalers |-> EmptyDict, feature_columns |-> <<>>,
     is_trained |-> FALSE]

Trained(cols) ==
    [models          |-> ("player_value" :> FittedModel(cols)),
     scalers         |-> ("player_value" :> FittedScaler(cols)),
     feature_columns |-> cols,
     is_trained      |-> TRUE]

Dir(ms, ss, fc) == [models |-> ms, scalers |-> ss, feature_columns |-> fc]

ModelDirs ==
    {None,
     Dir(EmptyDict, EmptyDict, None),
     Dir(Trained(TrainedColumns).models, Trained(TrainedColumns).scalers, Some(TrainedColumns)),
     Dir(Trained(StaleColumns).models, Trained(StaleColumns).scalers, Some(StaleColumns)),
     Dir(Trained(TrainedColumns).models, EmptyDict, Some(TrainedColumns)),
     Dir(EmptyDict, Trained(TrainedColumns).scalers, Some(TrainedColumns))}

\* the games of player 1 as <<disposals, goals>>; the first is the history
\* of spec.md's scenario C (a trend of 10, a rolling mean of 10)
Histories ==
    {<<<<0, 10>>, <<10, 10>>>>,
     <<<<3, 1>>>>,
     <<<<0, 0>>, <<3, 1>>, <<6, 0>>>>}

Ages == 16..MaxAge

WithAge(row, age) == ("age" :> Num(age)) @@ row

Database(history, age) ==
    Frame(DbColumns,
          [i \in DOMAIN history |->
              WithAge(Sample(1, IF i <= 2 THEN 2020 ELSE 2021, IF i <= 2 THEN i ELSE i - 2,
                             Num(history[i][1]), Num(history[i][2])), age)]
          \o <<WithAge(Sample(2, 2021, 1, Num(6), Num(0)), 30)>>)

InitProjection ==
    /\ pc = "idle"
    /\ \E history \in Histories : \E age \in Ages :
           performance_data = Database(history, age)
    /\ model \in {Fresh, Trained(TrainedColumns)}
    /\ model_dir \in ModelDirs
    /\ args \in [player_id : 1..3, projection_years : 0..MaxYears]
    /\ features = <<>>
    /\ projection = <<>>
    /\ scored = <<>>
    /\ QueryIdle

\* a caller asks for the projection of a player
Predict ==
    /\ pc = "idle"
    /\ LET out == predict_player_potential(model, model_dir, performance_data,
                                           args.player_id, args.projection_years)
       IN  /\ model' = out.model
           /\ projection' = out.ret
           /\ scored' = out.scored
    /\ pc' = "projected"
    /\ UNCHANGED <<performance_data, features, model_dir, args, queryVars>>

NextProjection == Predict

SpecProjection == InitProjection /\ [][NextProjection]_vars

\* the age factor of the specification, in hundredths, for a whole age
StepFactor(a) ==
    IF a < 20 THEN 110
    ELSE IF a < 25 THEN 105
    ELSE IF a < 30 THEN 100
    ELSE IF a < 33 THEN 95
    ELSE 90

\* the projection steps recorded in `scored`: entry 1 + o is offset o
Offsets == 1..(Len(scored) - 1)

\* C13: the age factor applied to a projected age is the step function
\* age<20 -> 1.10, 20<=age<25 -> 1.05, 25<=age<30 -> 1.00, 30<=age<33 -> 0.95,
\* age>=33 -> 0.90, and at the boundaries 19 -> 1.10, 20 -> 1.05, 24 -> 1.05,
\* 25 -> 1.00, 29 -> 1.00, 30 -> 0.95, 33 -> 0.90.
C13_AgeFactorSteps ==
    pc = "projected" =>
        \A o \in Offsets :
            LET e == scored[1 + o]
                a == e.age[1]
            IN  /\ e.age[2] = 1
                /\ e.age_factor = Rat(StepFactor(a), 100)
                /\ (a = 19 => e.age_factor = Rat(110, 100))
                /\ (a = 20 => e.age_factor = Rat(105, 100))
                /\ (a = 24 => e.age_factor = Rat(105, 100))
                /\ (a = 25 => e.age_factor = Rat(100, 100))
                /\ (a = 29 => e.age_factor = Rat(100, 100))
                /\ (a = 30 => e.age_factor = Rat(95, 100))
                /\ (a = 33 => e.age_factor = Rat(90, 100))

\* a projection from age 31 over three years: 0.95 at 32, 0.90 at 33 and 34
C13_Witness ==
    /\ pc = "projected"
    /\ Len(scored) = 4
    /\ scored[1].age = Num(31)
    /\ scored[2].age_factor = Rat(95, 100)
    /\ scored[3].age = Num(33)
    /\ scored[3].age_factor = Rat(90, 100)
    /\ scored[4].age_factor = Rat(90, 100)

\* the value of column col in a feature vector
ValueOf(X, col) == X.values[CHOOSE k \in DOMAIN X.columns : X.columns[k] = col]

Extrapolated == {"age", "career_games", "seasons_played"}

\* C14 (as claimed): in the step for offset o of a projection that is
\* returned, only the trend features are
\* multiplied, by the age factor of age + o, from their current value; the
\* rolling means and every other non-trend feature keep their current value.
C14_OnlyTrendsChange ==
    (pc = "projected" /\ "projections" \in DOMAIN projection) =>
        \A o \in Offsets :
            LET X_current == scored[1].features
                X == scored[1 + o].features
                factor == Rat(StepFactor(scored[1].age[1] + o), 100)
            IN  /\ X.columns = X_current.columns
                /\ \A k \in DOMAIN X.columns :
                       X.values[k] = IF Contains(X.columns[k], "trend")
                                     THEN Mul(X_current.values[k], factor)
                                     ELSE X_current.values[k]

\* C14 (amended): in the step for offset o of a projection that is returned,
\* the trend features are multiplied
\* by the age factor of age + o, from their current value; age, career_games
\* and seasons_played are set to age + o, career_games + 22 o and
\* seasons_played + o; the rolling means and every other feature keep their
\* current value.
C14_TrendsAndExtrapolatedChange ==
    (pc = "projected" /\ "projections" \in DOMAIN projection) =>
        \A o \in Offsets :
            LET X_current == scored[1].features
                X == scored[1 + o].features
                factor == Rat(StepFactor(scored[1].age[1] + o), 100)
            IN  /\ X.columns = X_current.columns
                /\ \A k \in DOMAIN X.columns :
                       X.values[k] =
                           IF Contains(X.columns[k], "trend")
                               THEN Mul(X_current.values[k], factor)
                           ELSE IF X.columns[k] = "age"
                               THEN Add(X_current.values[k], Num(o))
                           ELSE IF X.columns[k] = "career_games"
                               THEN Add(X_current.values[k], Num(22 * o))
                           ELSE IF X.columns[k] = "seasons_played"
                               THEN Add(X_current.values[k], Num(o))
                           ELSE X_current.values[k]

\* scenario C: age 21, a trend of 10 and a rolling mean of 10: one year
\* ahead the trend is 10.5 and the mean 10, and two years ahead again 10.5
C14_Witness ==
    /\ pc = "projected"
    /\ Len(scored) >= 3
    /\ scored[1].age = Num(21)
    /\ ValueOf(scored[1].features, "disposals_trend") = Num(10)
    /\ ValueOf(scored[1].features, "goals_avg_10") = Num(10)
    /\ ValueOf(scored[2].features, "disposals_trend") = Rat(105, 10)
    /\ ValueOf(scored[2].features, "goals_avg_10") = Num(10)
    /\ ValueOf(scored[3].features, "disposals_trend") = Rat(105, 10)
    /\ ValueOf(scored[2].features, "age") = Num(22)
    /\ "projections" \in DOMAIN projection

\* no fitted scorer is at hand after the call's attempt to load one
NoScorer ==
    \/ "player_value" \notin DOMAIN model.models
    \/ "player_value" \notin DOMAIN model.scalers

HasData == \E r \in Range(performance_data.rows) : r["player_id"] = Num(args.player_id)

team_requirements ==
    <<<<"possession_based", <<<<"Uncontested Possessions", Rat(3, 10)>>,
                              <<"Mark_Disposal_Ratio", Rat(2, 10)>>,
                              <<"Contested_Rate", Rat(-1, 10)>>>>>>,
      <<"pressure_based",   <<<<"Tackles", Rat(4, 10)>>,
                              <<"Contested Possessions", Rat(3, 10)>>,
                              <<"Tackle_Efficiency", Rat(3, 10)>>>>>>,
      <<"attacking",        <<<<"Goals", Rat(4, 10)>>,
                              <<"Goal_Accuracy", Rat(3, 10)>>,
                              <<"Forward_Pressure", Rat(3, 10)>>>>>>,
      <<"defensive",        <<<<"Tackles", Rat(3, 10)>>,
                              <<"Contested_Rate", Rat(3, 10)>>,
                              <<"Mark_Disposal_Ratio", Rat(2, 10)>>>>>>>>

KnownStyles == {team_requirements[k][1] : k \in DOMAIN team_requirements}

\* line 269
Requirements(team_style) ==
    team_requirements[CHOOSE k \in DOMAIN team_requirements :
                          team_requirements[k][1] = team_style][2]

\* Series.max() skips NaN, and is NaN when nothing is left
SeriesMax(xs) ==
    LET p == Range(Present(xs))
    IN  IF p = {} THEN NaN ELSE CHOOSE x \in p : \A y \in p : ~Less(x, y)

\* (mutant) the stat divided by the population maximum plus 1
NormalizedLaplace(rows, player, stat) ==
    LET stat_value == IF player[stat] # NaN THEN player[stat] ELSE Num(0)
        max_value == IF Less(Num(0), SeriesMax(Column(rows, stat)))
                     THEN SeriesMax(Column(rows, stat)) ELSE Num(0)
    IN  Div(stat_value, Add(max_value, Num(1)))

\* (mutant) the stat taken as it is, not divided by the maximum
NormalizedUnscaled(rows, player, stat) ==
    IF player[stat] # NaN THEN player[stat] ELSE Num(0)

\* lines 279-281: the stat of a player on the 0-1 scale
Normalized(rows, player, stat) ==
    LET stat_value == IF player[stat] # NaN THEN player[stat] ELSE Num(0)
        max_value == IF Less(Num(0), SeriesMax(Column(rows, stat)))
                     THEN SeriesMax(Column(rows, stat)) ELSE Num(1)
    IN  Div(stat_value, max_value)

\* line 282: what one stat adds to the score of a player
Contribution(rows, player, stat, weight) == Mul(weight, Normalized(rows, player, stat))

\* lines 275-282: the score of a player before line 284
RawScore(rows, cols, player, requirements) ==
    Sum([k \in DOMAIN requirements |->
            IF requirements[k][1] \in cols
            THEN Contribution(rows, player, requirements[k][1], requirements[k][2])
            ELSE Num(0)])

\* (mutant) the score appended as it is
FitScoreRaw(rows, cols, player, requirements) == RawScore(rows, cols, player, requirements)

\* line 284: max(0, score)
FitScore(rows, cols, player, requirements) ==
    LET score == RawScore(rows, cols, player, requirements)
    IN  IF Less(Num(0), score) THEN score ELSE Num(0)

FitColumn(team_style) == team_style \o "_fit_score"

\* line 287: sort_values(col, ascending=False); the default sort is not
\* stable, so the order among rows with equal values is any order
SortDescending(rows, col) ==
    LET n == Len(rows)
        perms == {p \in [1..n -> 1..n] :
                     /\ \A i, j \in 1..n : i # j => p[i] # p[j]
                     /\ \A i \in 1..(n - 1) : ~Less(rows[p[i]][col], rows[p[i + 1]][col])}
    IN  {[i \in 1..n |-> rows[p[i]]] : p \in perms}

\* (mutant) an unknown style scored 0 for every player
evaluate_team_fit_ScoresUnknown(player_df, team_style) ==
    {Frame(player_df.columns \cup {FitColumn(team_style)},
           [i \in DOMAIN player_df.rows |->
               (FitColumn(team_style) :> Num(0)) @@ player_df.rows[i]])}

\* lines 238-289: the frames the call can return
evaluate_team_fit(player_df, team_style) ==
    IF team_style \notin KnownStyles THEN {player_df}
    ELSE LET requirements == Requirements(team_style)
             scored_rows ==
                 [i \in DOMAIN player_df.rows |->
                     (FitColumn(team_style) :>
                          FitScore(player_df.rows, player_df.columns,
                                   player_df.rows[i], requirements))
                     @@ player_df.rows[i]]
         IN  {Frame(player_df.columns \cup {FitColumn(team_style)}, rows) :
                 rows \in SortDescending(scored_rows, FitColumn(team_style))}

(***************************************************************************)
(* The populations scored: up to MaxPlayers players with their tackles and *)
(* contested rate, each -1, 0, 1, 2 or missing, in frames with both        *)
(* columns, one or none; the four profiles and a name that is none of      *)
(* them.                                                                   *)
(***************************************************************************)
StatValues == {NaN, Num(-1), Num(0), Num(1), Num(2)}

FitColumnSets ==
    {{"Player", "Tackles", "Contested_Rate"}, {"Player", "Contested_Rate"}, {"Player"}}

TeamStyles == KnownStyles \cup {"counter_attack"}

FitRow(i, tackles, rate, cols) ==
    Restrict([Player |-> Num(i), Tackles |-> tackles, Contested_Rate |-> rate], cols)

InitTeamFit ==
    /\ pc = "unscored"
    /\ \E n \in 0..MaxPlayers : \E cols \in FitColumnSets :
       \E tackles \in [1..n -> IF "Tackles" \in cols THEN StatValues ELSE {NaN}] :
       \E rates \in [1..n -> IF "Contested_Rate" \in cols THEN StatValues ELSE {NaN}] :
           df = Frame(cols, [i \in 1..n |-> FitRow(i, tackles[i], rates[i], cols)])
    /\ args \in [team_style : TeamStyles]
    /\ result = [frame |-> NoFrame, raised |-> FALSE]
    /\ result2 = [frame |-> NoFrame, raised |-> FALSE]
    /\ filters = NoFilters
    /\ query = ""
    /\ answer = NoAnswer
    /\ performance_data = <<>>
    /\ features = <<>>
    /\ model = <<>>
    /\ model_dir = <<>>
    /\ projection = <<>>
    /\ scored = <<>>

\* the dashboard scores its players against a team style
EvaluateTeamFit ==
    /\ pc = "unscored"
    /\ \E frame \in evaluate_team_fit(df, args.team_style) :
           result' = [frame |-> frame, raised |-> FALSE]
    /\ pc' = "scored"
    /\ UNCHANGED <<df, filters, result2, query, answer, evalVars>>

NextTeamFit == EvaluateTeamFit

SpecTeamFit == InitTeamFit /\ [][NextTeamFit]_vars

\* the row of the population that a returned row was made from
Origin(r) == CHOOSE o \in Range(df.rows) : o["Player"] = r["Player"]

Scoring == pc = "scored" /\ args.team_style \in KnownStyles

\* C16: for every population, entity and known profile the team-fit score
\* is >= 0, and it is 0 when the raw weighted sum is negative.
C16_FitScoreNonNegative ==
    Scoring =>
        /\ Len(result.frame.rows) = Len(df.rows)
        /\ \A r \in Range(result.frame.rows) :
               LET fit == r[FitColumn(args.team_style)]
                   raw == RawScore(df.rows, df.columns, Origin(r), Requirements(args.team_style))
               IN  /\ fit # NaN
                   /\ ~Less(fit, Num(0))
                   /\ (Less(raw, Num(0)) => fit = Num(0))

\* a player whose contested rate gives a raw sum of -0.1 and a score of 0
C16_Witness ==
    /\ Scoring
    /\ \E r \in Range(result.frame.rows) :
           /\ RawScore(df.rows, df.columns, Origin(r), Requirements(args.team_style))
                  = Rat(-1, 10)
           /\ r[FitColumn(args.team_style)] = Num(0)

\* the profile stats that are columns of the population
StatsPresent == SelectSeq(Requirements(args.team_style), LAMBDA sw : sw[1] \in df.columns)

\* C17 (as claimed): for every population, an entity whose value of a profile
\* stat equals the population maximum of that stat contributes exactly the
\* weight of that stat to its total (its total is that weight, if positive,
\* when the stat is the only profile stat of the population).
C17_MaxContributesWeight ==
    Scoring =>
        \A k \in DOMAIN StatsPresent : \A r \in Range(result.frame.rows) :
            LET stat == StatsPresent[k][1]
                weight == StatsPresent[k][2]
            IN  (/\ Origin(r)[stat] # NaN
                 /\ Origin(r)[stat] = SeriesMax(Column(df.rows, stat)))
                => /\ Contribution(df.rows, Origin(r), stat, weight) = weight
                   /\ (Len(StatsPresent) = 1 /\ Less(Num(0), weight))
                          => r[FitColumn(args.team_style)] = weight

\* C17 (amended): the same for every population whose maximum of the stat is
\* above 0.
C17_PositiveMaxContributesWeight ==
    Scoring =>
        \A k \in DOMAIN StatsPresent : \A r \in Range(result.frame.rows) :
            LET stat == StatsPresent[k][1]
                weight == StatsPresent[k][2]
            IN  (/\ Origin(r)[stat] # NaN
                 /\ Origin(r)[stat] = SeriesMax(Column(df.rows, stat))
                 /\ Less(Num(0), SeriesMax(Column(df.rows, stat))))
                => /\ Contribution(df.rows, Origin(r), stat, weight) = weight
                   /\ (Len(StatsPresent) = 1 /\ Less(Num(0), weight))
                          => r[FitColumn(args.team_style)] = weight

\* scenario D: pressure_based, two players, the one with the most tackles
\* (2 against 1) scores 0.4 from them
C17_Witness ==
    /\ Scoring
    /\ args.team_style = "pressure_based"
    /\ "Tackles" \in df.columns
    /\ Len(df.rows) = 2
    /\ \E r \in Range(result.frame.rows) : \E q \in Range(result.frame.rows) :
           /\ r["Tackles"] = Num(2)
           /\ q["Tackles"] = Num(1)
           /\ r["pressure_based_fit_score"] = Rat(4, 10)
           /\ q["pressure_based_fit_score"] = Rat(2, 10)

\* C18: with a profile name outside the four known ones the call returns
\* the input population: same columns, same rows, same order, and no
\* fit-score column.
C18_UnknownStyleUnscored ==
    (pc = "scored" /\ args.team_style \notin {"possession_based", "pressure_based",
                                              "attacking", "defensive"})
    => /\ result.frame = df
       /\ FitColumn(args.team_style) \notin result.frame.columns
       /\ ~result.raised

C18_Witness ==
    /\ pc = "scored"
    /\ args.team_style = "counter_attack"
    /\ "Tackles" \in df.columns
    /\ Len(df.rows) = 2
    /\ df.rows[1]["Tackles"] = Num(1)
    /\ df.rows[2]["Tackles"] = Num(2)
    /\ result.frame = df

(***************************************************************************)
(* AFLPlayerAnalyzer.cluster_players_by_style, src/src/analysis/           *)
(* ml_models.py lines 160-204, with the library calls it makes.            *)
(*                                                                         *)
(* StandardScaler divides each column by its standard deviation, a square  *)
(* root.  The model keeps points and centres unscaled, with each column's  *)
(* mean and variance beside them: a squared distance in the scaled space   *)
(* is the sum of (x - y)^2 / variance, and a scaled centre is compared     *)
(* with a threshold through squares.  Both are exact.                      *)
(***************************************************************************)
\* lines 168-171
cluster_features ==
    <<"Mark_Disposal_Ratio", "Contested_Rate", "Goal_Accuracy", "Tackle_Efficiency">>

\* line 173
AvailableFeatures(cols) == SelectSeq(cluster_features, LAMBDA c : c \in cols)

\* (mutant) one feature is enough
EnoughFeaturesOne(available_features) == Len(available_features) >= 1

\* line 175
EnoughFeatures(available_features) == ~(Len(available_features) < 2)

\* an array holds its values: the sequence with each element computed once
Array(s) == <<>> \o s

\* line 179: df[available_features].fillna(0), one point per row
Points(rows, feats) ==
    Array([i \in DOMAIN rows |->
        Array([j \in DOMAIN feats |->
            IF rows[i][feats[j]] = NaN THEN Num(0) ELSE rows[i][feats[j]]])])

\* line 180: the mean and the variance StandardScaler fits on each column; a
\* column without spread is scaled by 1
Scaling(points, dim) ==
    Array([j \in 1..dim |->
        LET col == Array([i \in DOMAIN points |-> points[i][j]])
            mean == Div(Sum(col), Num(Len(col)))
            var == Div(Sum(Array([i \in DOMAIN col |->
                                     Mul(Sub(col[i], mean), Sub(col[i], mean))])),
                       Num(Len(col)))
        IN  [mean |-> mean, var |-> IF var = Num(0) THEN Num(1) ELSE var]])

\* the squared distance of two points after scaling
Dist2(x, y, scaling) ==
    Sum(Array([j \in DOMAIN x |->
                  LET d == Sub(x[j], y[j]) IN Div(Mul(d, d), scaling[j].var)]))

\* (mutant) no random_state: each call seeds itself anew
KMeansSeedPerCall(invocation) == 42 + invocation

\* line 183: random_state=42, whichever call this is
KMeansSeed(invocation) == 42

n_init == 10

\* the t-th draw of a RandomState made from seed, below n: a fixed function
\* of seed and t
Draw(seed, t, n) == ((seed + 1) * (t * t + 3 * t + 7) + t) % n

\* the seeding of one run: each centre is a point drawn among the points
\* that differ from the centres drawn so far (among all points when none
\* differs); `first` is the number of the run's first draw
RECURSIVE SeedCentres(_, _, _, _, _)
SeedCentres(points, k, seed, first, chosen) ==
    IF Len(chosen) = k THEN Array([c \in 1..k |-> points[chosen[c]]])
    ELSE LET away == {i \in DOMAIN points : \A c \in DOMAIN chosen : points[i] # points[chosen[c]]}
             cands == IF away = {} THEN DOMAIN points ELSE away
             d == Draw(seed, first + Len(chosen), Cardinality(cands))
             pick == CHOOSE i \in cands : Cardinality({j \in cands : j < i}) = d
         IN  SeedCentres(points, k, seed, first, Append(chosen, pick))

\* the centre nearest to a point, the first of them when several are
Nearest(x, centres, scaling) ==
    LET dist == Array([c \in DOMAIN centres |-> Dist2(x, centres[c], scaling)])
    IN  CHOOSE c \in DOMAIN centres :
            /\ \A e \in DOMAIN centres : ~Less(dist[e], dist[c])
            /\ \A e \in 1..(c - 1) : Less(dist[c], dist[e])

Assign(points, centres, scaling) ==
    Array([i \in DOMAIN points |-> Nearest(points[i], centres, scaling)])

\* the mean of the points of each cluster; a cluster without points keeps
\* its centre
Recentre(points, labels, centres) ==
    Array([c \in DOMAIN centres |->
        LET members == {i \in DOMAIN points : labels[i] = c}
        IN  IF members = {} THEN centres[c]
            ELSE Array([j \in DOMAIN centres[c] |->
                     Div(Sum(Array([i \in DOMAIN points |->
                                       IF i \in members THEN points[i][j] ELSE Num(0)])),
                         Num(Cardinality(members)))])])

\* Lloyd's iterations from the given centres, until the centres stay
RECURSIVE Lloyd(_, _, _)
Lloyd(points, centres, scaling) ==
    LET labels == Assign(points, centres, scaling)
        moved == Recentre(points, labels, centres)
    IN  IF moved = centres
        THEN [labels |-> labels, centres |-> centres,
              inertia |-> Sum(Array([i \in DOMAIN points |->
                                        Dist2(points[i], centres[labels[i]], scaling)]))]
        ELSE Lloyd(points, moved, scaling)

\* lines 183-184: KMeans(n_clusters, random_state, n_init).fit_predict: the
\* first of the n_init runs with the least inertia
KMeans(points, k, seed, scaling) ==
    LET Run(r) == Lloyd(points, SeedCentres(points, k, seed, (r - 1) * k, <<>>), scaling)
        runs == Array([r \in 1..n_init |-> Run(r)])
        best == CHOOSE r \in 1..n_init :
                    /\ \A q \in 1..n_init : ~Less(runs[q].inertia, runs[r].inertia)
                    /\ \A q \in 1..(r - 1) : Less(runs[r].inertia, runs[q].inertia)
    IN  runs[best]

\* centre value c of a column, scaled, is above the threshold t > 0
ScaledAbove(c, scale, t) ==
    LET d == Sub(c, scale.mean)
    IN  /\ Less(Num(0), d)
        /\ Less(Mul(Mul(t, t), scale.var), Mul(d, d))

IndexOf(seq, x) == CHOOSE k \in DOMAIN seq : seq[k] = x

StyleN(i) == "Style_" \o (<<"1", "2", "3", "4", "5", "6", "7", "8", "9">>)[i]

\* lines 206-236, for the centre of cluster i (from 1)
StyleName(i, centre, scaling, feats) ==
    LET Above(f, t) ==
            ScaledAbove(centre[IndexOf(feats, f)], scaling[IndexOf(feats, f)], t)
    IN  IF "Mark_Disposal_Ratio" \in Range(feats)
        THEN IF Above("Mark_Disposal_Ratio", Rat(5, 10))
             THEN IF "Goal_Accuracy" \in Range(feats)
                  THEN IF Above("Goal_Accuracy", Rat(5, 10))
                       THEN "Key Forward" ELSE "Marking Defender"
                  ELSE "Strong Marker"
             ELSE IF "Contested_Rate" \in Range(feats)
                  THEN IF Above("Contested_Rate", Rat(4, 10))
                       THEN "Inside Midfielder" ELSE "Outside Runner"
                  ELSE StyleN(i)
        ELSE StyleN(i)

_assign_style_names(centres, scaling, feats) ==
    Array([i \in DOMAIN centres |-> StyleName(i, centres[i], scaling, feats)])

\* silhouette_score raises unless 2 <= number of labels <= n_samples - 1
CanSilhouette(labels) ==
    /\ Cardinality(Range(labels)) >= 2
    /\ Cardinality(Range(labels)) <= Len(labels) - 1

\* lines 160-204.  The scaler raises on a frame without rows, KMeans on
\* fewer rows than clusters and silhouette_score on its labels; the except
\* branch then returns df.
cluster_players_by_style(data, n_clusters, invocation) ==
    LET available_features == AvailableFeatures(data.columns)
        points == Points(data.rows, available_features)
        scaling == Scaling(points, Len(available_features))
        kmeans == KMeans(points, n_clusters, KMeansSeed(invocation), scaling)
        style_names == _assign_style_names(kmeans.centres, scaling, available_features)
    IN  IF ~EnoughFeatures(available_features) THEN data
        ELSE IF Len(data.rows) = 0 \/ n_clusters < 1 \/ Len(data.rows) < n_clusters THEN data
        ELSE IF ~CanSilhouette(kmeans.labels) THEN data
        ELSE Frame(data.columns \cup {"Playing_Style_Cluster", "Playing_Style"},
                   [i \in DOMAIN data.rows |->
                       ("Playing_Style_Cluster" :> Num(kmeans.labels[i] - 1))
                       @@ ("Playing_Style" :> style_names[kmeans.labels[i]])
                       @@ data.rows[i]])

(***************************************************************************)
(* The populations clustered: up to MaxPoints players with two ratio       *)
(* features, a mark ratio of 1 or missing and a contested rate of 1, 3 or  *)
(* missing (missing is 0 by line 179), in frames with both features, one   *)
(* or none; 2 or 3 clusters.                                               *)
(***************************************************************************)
MarkRatios == {NaN, Num(1)}

ContestedRates == {NaN, Num(1), Num(3)}

ClusterColumnSets ==
    {{"Player", "Mark_Disposal_Ratio", "Contested_Rate"},
     {"Player", "Contested_Rate"},
     {"Player", "Disposals"}}

ClusterRow(i, mark, rate, cols) ==
    Restrict([Player |-> Num(i), Mark_Disposal_Ratio |-> mark, Contested_Rate |-> rate,
              Disposals |-> Num(10 * i)], cols)

InitCluster ==
    /\ pc = "unclustered"
    /\ \E n \in 0..MaxPoints : \E cols \in ClusterColumnSets :
       \E marks \in [1..n -> IF "Mark_Disposal_Ratio" \in cols THEN MarkRatios ELSE {NaN}] :
       \E rates \in [1..n -> IF "Contested_Rate" \in cols THEN ContestedRates ELSE {NaN}] :
           df = Frame(cols, [i \in 1..n |-> ClusterRow(i, marks[i], rates[i], cols)])
    /\ args \in [n_clusters : 2..3]
    /\ result = [frame |-> NoFrame, raised |-> FALSE]
    /\ result2 = [frame |-> NoFrame, raised |-> FALSE]
    /\ filters = NoFilters
    /\ query = ""
    /\ answer = NoAnswer
    /\ performance_data = <<>>
    /\ features = <<>>
    /\ model = <<>>
    /\ model_dir = <<>>
    /\ projection = <<>>
    /\ scored = <<>>

\* a caller clusters its players
ClusterPlayers ==
    /\ pc = "unclustered"
    /\ result' = [frame |-> cluster_players_by_style(df, args.n_clusters, 1), raised |-> FALSE]
    /\ pc' = "clustered"
    /\ UNCHANGED <<df, filters, result2, query, answer, evalVars>>

\* and clusters the same players, with the same n_clusters, once more
ClusterPlayersAgain ==
    /\ pc = "clustered"
    /\ result2' = [frame |-> cluster_players_by_style(df, args.n_clusters, 2), raised |-> FALSE]
    /\ pc' = "reclustered"
    /\ UNCHANGED <<df, filters, result, query, answer, evalVars>>

NextCluster == ClusterPlayers \/ ClusterPlayersAgain

SpecCluster == InitCluster /\ [][NextCluster]_vars

\* C19: on a population with fewer than 2 of the four ratio features the
\* call returns its input unchanged, without a cluster id or a style label
\* column.
C19_TooFewFeaturesUnchanged ==
    (pc \in {"clustered", "reclustered"}
     /\ Cardinality(df.columns \cap {"Mark_Disposal_Ratio", "Contested_Rate",
                                     "Goal_Accuracy", "Tackle_Efficiency"}) < 2)
    => /\ result.frame = df
       /\ "Playing_Style_Cluster" \notin result.frame.columns
       /\ "Playing_Style" \notin result.frame.columns

\* three players, 2 clusters asked for, one ratio feature with two values
C19_Witness ==
    /\ pc = "clustered"
    /\ df.columns = {"Player", "Contested_Rate"}
    /\ Len(df.rows) = 3
    /\ args.n_clusters = 2
    /\ df.rows[1]["Contested_Rate"] = NaN
    /\ df.rows[2]["Contested_Rate"] = Num(1)
    /\ result.frame = df

Superlatives == <<"top", "best", "most", "highest", "leading">>

ExplicitLimit(q) == \E i \in 1..Len(q) : LimitMatchAt(q, i)

FirstLimit(q) ==
    LimitMatchValue(q, CHOOSE i \in 1..Len(q) :
                           LimitMatchAt(q, i) /\ \A h \in 1..(i - 1) : ~LimitMatchAt(q, h))

\* C22: a query with "top/best/first N" gets the limit N; without it, a
\* query with a superlative keyword (top, best, most, highest, leading) gets
\* the limit 10; any other query gets no limit.
C22_SuperlativeDefaultsToTen ==
    pc = "answered" =>
        LET q == Lower(query)
        IN  answer.filters.limit =
                IF ExplicitLimit(q) THEN Some(FirstLimit(q))
                ELSE IF AnyIn(Superlatives, q) THEN Some(10)
                ELSE None

\* the numbers written in a query
ExplicitAges(q) == Range(AgeMatches(q, 1))

\* C23 (as claimed): in a query with a number, each bound of age_range is
\* one of the query's numbers or None, never a keyword default.
C23_DefaultsOnlyWithoutNumber ==
    (pc = "answered" /\ ExplicitAges(Lower(query)) # {})
    => \A k \in 1..2 :
           \/ IsNone(answer.filters.age_range[k])
           \/ Val(answer.filters.age_range[k]) \in ExplicitAges(Lower(query))

\* the numbers of q set the upper, the lower bound
SetsUpper(q) ==
    /\ ExplicitAges(q) # {}
    /\ \/ Contains(q, "under") \/ Contains(q, "below")
       \/ (~Contains(q, "over") /\ ~Contains(q, "above") /\ Len(AgeMatches(q, 1)) >= 2)

SetsLower(q) ==
    /\ ExplicitAges(q) # {}
    /\ ~Contains(q, "under") /\ ~Contains(q, "below")

\* C23 (amended): each default fills its own bound when the numbers of the
\* query left that bound unset, whether or not the query has a number: the
\* upper bound is a number of the query when the numbers set it, otherwise
\* 23 with a "young" keyword and None without; the lower bound likewise
\* with 28 and the "experienced" keywords.
C23_DefaultFillsUnsetBound ==
    pc = "answered" =>
        LET q == Lower(query)
            range == answer.filters.age_range
        IN  /\ IF SetsUpper(q)
               THEN ~IsNone(range[2]) /\ Val(range[2]) \in ExplicitAges(q)
               ELSE range[2] = IF AnyIn(Keywords(age_keywords, "young"), q)
                               THEN Some(YoungDefault) ELSE None
            /\ IF SetsLower(q)
               THEN ~IsNone(range[1]) /\ Val(range[1]) \in ExplicitAges(q)
               ELSE range[1] = IF AnyIn(Keywords(age_keywords, "experienced"), q)
                               THEN Some(ExperiencedDefault) ELSE None

\* a query with a number whose lower bound is the default all the same
C23_Witness ==
    /\ pc = "answered"
    /\ ExplicitAges(Lower(query)) = {30}
    /\ answer.filters.age_range = <<Some(ExperiencedDefault), Some(30)>>

\* the distance in q of two keywords that occur in it
Distance(q, a, b) == Abs(Find(q, a) - Find(q, b))

\* the keywords of a stat, of a bucket, that occur in q
StatWords(q, stat) ==
    {w \in Range(Keywords(stat_keywords, stat)) : Contains(q, w)}

BucketWords(q, bucket) ==
    {k \in Range(Keywords(comparison_keywords, bucket)) : Contains(q, k)}

\* C24: a stat has a bucket only from a comparison keyword of that bucket
\* less than 50 characters from a keyword of the stat, and no keyword of
\* another stat is nearer to that comparison keyword.
C24_NearestStatOnly ==
    pc = "answered" =>
        LET q == Lower(query)
        IN  \A item \in Range(answer.filters.comparisons) :
                \E k \in BucketWords(q, item[2]) : \E w \in StatWords(q, item[1]) :
                    /\ Distance(q, w, k) < 50
                    /\ \A other \in {stat_keywords[i][1] : i \in DOMAIN stat_keywords} \ {item[1]} :
                           \A v \in StatWords(q, other) : Distance(q, w, k) <= Distance(q, v, k)

(***************************************************************************)
(* Further properties of prepare_features.                                 *)
(***************************************************************************)
\* C25: the seasons_played of a sample is the number of distinct years among
\* the samples of its entity up to and including it, gaps between the years
\* or not.
C25_SeasonsPlayedCountsDistinctYears ==
    (pc = "derived" /\ ~features.raised) =>
        \A id \in {r["player_id"] : r \in Range(performance_data.rows)} :
            LET rows == RowsOf(features.frame, id)
            IN  \A i \in DOMAIN rows :
                    rows[i]["seasons_played"]
                        = Num(Cardinality({rows[k]["year"] : k \in 1..i}))

\* the stat columns of a frame, all but the keys of a sample
RawStats(cols) == cols \ {"player_id", "year", "games_played"}

\* the frame with each missing stat value replaced by 0
Zeroed(frame) ==
    Frame(frame.columns,
          [i \in DOMAIN frame.rows |->
              [c \in frame.columns |->
                  IF c \in RawStats(frame.columns) /\ frame.rows[i][c] = NaN
                  THEN Num(0) ELSE frame.rows[i][c]]])

\* C26: on samples with a missing stat value prepare_features does not
\* raise, and its rolling means, trends and efficiency ratios are those of
\* the same samples with 0 in place of each missing value.
C26_MissingAsZero ==
    (/\ pc = "derived"
     /\ {"player_id", "year", "games_played"} \subseteq performance_data.columns
     /\ \E r \in Range(performance_data.rows) :
            \E c \in RawStats(performance_data.columns) : r[c] = NaN)
    => /\ ~features.raised
       /\ LET zeroed == prepare_features(Zeroed(performance_data)).frame
          IN  \A i \in DOMAIN features.frame.rows :
              \A c \in DerivedColumns(performance_data.columns)
                           \ {"career_games", "seasons_played"} :
                  features.frame.rows[i][c] = zeroed.rows[i][c]

(***************************************************************************)
(* Further properties of the shared PlayerEvaluationModel instance         *)
(* (player_model, line 562) and of predict_player_potential.               *)
(***************************************************************************)
\* C21: no call on the query path writes the state its callers share: the
\* fields of the engine instance (models, scalers, feature_columns,
\* is_trained) and the dataset are after each step what they were before.
C21_SharedStateUnwritten ==
    [][model' = model /\ performance_data' = performance_data]_vars

\* C30: whenever is_trained is set, models and scalers both hold the
\* 'player_value' entry.
C30_TrainedHasScorer ==
    (pc = "projected" /\ model.is_trained)
    => /\ "player_value" \in DOMAIN model.models
       /\ "player_value" \in DOMAIN model.scalers

\* the samples of the player asked for
CareerSamples ==
    Cardinality({i \in DOMAIN performance_data.rows :
                     performance_data.rows[i]["player_id"] = Num(args.player_id)})

CurrentAge ==
    (CHOOSE r \in Range(performance_data.rows) : r["player_id"] = Num(args.player_id))["age"]

\* the points are those of offsets 1 .. Y in this order, each with the age
\* and the sample count of its offset, and the peak is one of them with a
\* score no other point exceeds
PointsOfHorizon(ret, Y) ==
    /\ "projections" \in DOMAIN ret
    /\ Len(ret.projections) = Y
    /\ \A o \in 1..Y :
           /\ ret.projections[o].year = o
           /\ ret.projections[o].age = Add(CurrentAge, Num(o))
           /\ ret.projections[o].career_games = Num(CareerSamples + 22 * o)
    /\ ret.peak_projection \in Range(ret.projections)
    /\ \A o \in 1..Y :
           ~Less(ret.peak_projection.projected_impact, ret.projections[o].projected_impact)

\* C28 (as claimed): with a fitted scorer, for every horizon Y, the call
\* returns exactly Y projection points for the offsets 1 .. Y in this order,
\* each with age + o and career samples + 22 o, and the peak is a point
\* with the greatest projected score.
C28_PointsForEveryHorizon ==
    (pc = "projected" /\ HasData /\ ~NoScorer)
    => PointsOfHorizon(projection, args.projection_years)

\* C28 (amended): the same for a horizon Y >= 1 and a scorer fitted on
\* features that include the age, as every training produces.
C28_PointsForPositiveHorizon ==
    (/\ pc = "projected" /\ HasData /\ ~NoScorer
     /\ args.projection_years >= 1
     /\ "age" \in Range(model.feature_columns))
    => PointsOfHorizon(projection, args.projection_years)

\* three points from the age of 17, the second of them the peak: the age
\* factor is 1.10 at 18 and 19 and 1.05 at 20
C28_Witness ==
    /\ pc = "projected"
    /\ HasData /\ ~NoScorer
    /\ args.projection_years = 3
    /\ "projections" \in DOMAIN projection
    /\ projection.current_age = Num(17)
    /\ projection.peak_projection = projection.projections[2]
    /\ projection.peak_projection.age = Num(19)
    /\ Less(projection.projections[1].projected_impact, projection.projections[2].projected_impact)
    /\ Less(projection.projections[3].projected_impact, projection.projections[2].projected_impact)

(***************************************************************************)
(* Further properties of evaluate_team_fit and _assign_style_names.        *)
(***************************************************************************)
\* the sum of the positive weights of a profile
PositiveWeights(team_style) ==
    Sum([k \in DOMAIN Requirements(team_style) |->
            IF Less(Num(0), Requirements(team_style)[k][2])
            THEN Requirements(team_style)[k][2] ELSE Num(0)])

\* no value of a stat of the profile is below 0 in the population
NonNegative(team_style) ==
    \A k \in DOMAIN Requirements(team_style) :
        Requirements(team_style)[k][1] \in df.columns
        => \A o \in Range(df.rows) : ~Less(o[Requirements(team_style)[k][1]], Num(0))

\* C29: on a population whose values of the profile's stats are all
\* non-negative or missing, the team-fit score of every entity is at most
\* the sum of the positive weights of the profile, and so at most 1 for
\* each of the four profiles.
C29_FitScoreAtMostPositiveWeights ==
    (Scoring /\ NonNegative(args.team_style)) =>
        \A r \in Range(result.frame.rows) :
            /\ ~Less(PositiveWeights(args.team_style), r[FitColumn(args.team_style)])
            /\ ~Less(Num(1), r[FitColumn(args.team_style)])

\* a defender with the most tackles and the highest contested rate of two
\* players scores 0.6, the weights of the two stats
C29_Witness ==
    /\ Scoring /\ NonNegative(args.team_style)
    /\ args.team_style = "defensive"
    /\ {"Tackles", "Contested_Rate"} \subseteq df.columns
    /\ Len(df.rows) = 2
    /\ \E r \in Range(result.frame.rows) :
           /\ Origin(r)["Tackles"] = Num(2)
           /\ Origin(r)["Contested_Rate"] = Num(1)
           /\ r[FitColumn("defensive")] = Rat(6, 10)
    /\ \E r \in Range(result.frame.rows) : Less(r[FitColumn("defensive")], Rat(6, 10))

(***************************************************************************)
(* _assign_style_names on its own: up to MaxCentres centres over each      *)
(* subset of two or more of the four ratio features, in the order of       *)
(* cluster_features, with values at and next to the thresholds.  The       *)
(* centres are those of the scaled points, so no scaling is left to do.    *)
(***************************************************************************)
MaxCentres == 2

FeatureSubsets == {fs \in SUBSET Range(cluster_features) : Cardinality(fs) >= 2}

CentreValues(feature) ==
    IF feature = "Contested_Rate" THEN {Rat(4, 10), Rat(5, 10)}
    ELSE IF feature = "Tackle_Efficiency" THEN {Num(0)}
    ELSE {Rat(5, 10), Rat(6, 10)}

CentresOver(feats) ==
    {c \in [DOMAIN feats -> UNION {CentreValues(f) : f \in Range(feats)}] :
        \A j \in DOMAIN feats : c[j] \in CentreValues(feats[j])}

Unscaled(feats) == [j \in DOMAIN feats |-> [mean |-> Num(0), var |-> Num(1)]]

InitStyleNames ==
    /\ pc = "centres"
    /\ \E fs \in FeatureSubsets : \E k \in 1..MaxCentres :
           LET feats == SelectSeq(cluster_features, LAMBDA c : c \in fs)
           IN  \E centers \in [1..k -> CentresOver(feats)] :
                   args = [centers |-> centers, features |-> feats]
    /\ answer = NoAnswer
    /\ df = NoFrame
    /\ filters = NoFilters
    /\ result = [frame |-> NoFrame, raised |-> FALSE]
    /\ result2 = [frame |-> NoFrame, raised |-> FALSE]
    /\ query = ""
    /\ performance_data = <<>>
    /\ features = <<>>
    /\ model = <<>>
    /\ model_dir = <<>>
    /\ projection = <<>>
    /\ scored = <<>>

\* line 196: the centres of a clustering are given their names
AssignStyleNames ==
    /\ pc = "centres"
    /\ answer' = _assign_style_names(args.centers, Unscaled(args.features), args.features)
    /\ pc' = "named"
    /\ UNCHANGED <<df, filters, result, result2, query, evalVars>>

NextStyleNames == AssignStyleNames

SpecStyleNames == InitStyleNames /\ [][NextStyleNames]_vars

\* the value of a feature in the centre of cluster i
CentreOf(i, feature) ==
    args.centers[i][CHOOSE j \in DOMAIN args.features : args.features[j] = feature]

Available(feature) == feature \in Range(args.features)

\* the label the decision rule gives cluster i
RuleLabel(i) ==
    IF Available("Mark_Disposal_Ratio") /\ Less(Rat(5, 10), CentreOf(i, "Mark_Disposal_Ratio"))
    THEN IF ~Available("Goal_Accuracy") THEN "Strong Marker"
         ELSE IF Less(Rat(5, 10), CentreOf(i, "Goal_Accuracy")) THEN "Key Forward"
         ELSE "Marking Defender"
    ELSE IF Available("Contested_Rate")
    THEN IF Less(Rat(4, 10), CentreOf(i, "Contested_Rate")) THEN "Inside Midfielder"
         ELSE "Outside Runner"
    ELSE "Style_" \o (<<"1", "2", "3", "4", "5", "6", "7", "8", "9">>)[i]

\* C27: every cluster gets exactly one label, the one of the decision rule:
\* Key Forward, Marking Defender or Strong Marker for a marking ratio above
\* 0.5; otherwise, whenever the contested rate is available, Inside
\* Midfielder above 0.4 and Outside Runner else; Style_n only without it.
C27_DecisionRule ==
    pc = "named" =>
        /\ DOMAIN answer = DOMAIN args.centers
        /\ \A i \in DOMAIN args.centers : answer[i] = RuleLabel(i)

====
